---- MODULE Spec2Model ----
(***************************************************************************)
(* Model of the two command-line tools of the avm repository:              *)
(*   - avm_module_finder.py            (Resource Matcher, CSV join)        *)
(*   - avm_module_parameter_parser.py  (README Extractor)                  *)
(***************************************************************************)
EXTENDS Integers, Sequences, FiniteSets, TLC

(***************************************************************************)
(* Bounds                                                                  *)
(***************************************************************************)
MaxRefRows == 2
MaxDepRows == 2

(***************************************************************************)
(* State of avm_module_finder.py (main and the files it touches)           *)
(***************************************************************************)
VARIABLES
    fpc,              \* the step main is at (the step it stopped in, once exited)
    no_cleanup,       \* args.no_cleanup
    deploymentCsv,    \* the user's deployment CSV (NoFile when absent)
    remoteCsv,        \* the reference CSV served at AVM_MODULES_URL
    workingCsv,       \* working/TerraformResourceModules.csv
    temp_files,       \* main's list of files to clean up
    deployment_data,  \* the Deployment Index
    matched_modules,  \* the Matched Modules list
    columns,          \* the column list returned by match_and_filter_modules
    outputCsv,        \* output/AVMModuleMaster.csv
    exitStatus,       \* process exit status, -1 while running
    failedStep,       \* the step whose except block called sys.exit(1)
    interrupted       \* KeyboardInterrupt reached main's handler

fvars == <<fpc, no_cleanup, deploymentCsv, remoteCsv, workingCsv, temp_files,
           deployment_data, matched_modules, columns, outputCsv, exitStatus,
           failedStep, interrupted>>

(***************************************************************************)
(* State of avm_module_parameter_parser.py (main, the fetcher, the parser) *)
(***************************************************************************)
VARIABLES
    ppc,               \* the call main is at (the one it stopped in, once exited)
    argv1,             \* sys.argv[1], NoArg when absent
    doc,               \* the README (served by GitHub, or the local file)
    localReadme,       \* which local README exists: "working", "root", "none"
    fetcher,           \* registry_fetcher's fields
    fetched_source,    \* source_url in fetch_and_save_readme
    fetchLog,          \* the requests of the latest fetch_readme_content call
    fetchResult,       \* what the latest fetch_readme_content call returned
    readme_file,       \* base name of readme_path
    out_name,          \* module_name of output/<module_name>.json
    submodule_infos,   \* the submodules found in the "Modules" section
    subIndex,          \* position of the loop over submodule_infos
    subFetchOk,        \* per processed submodule: fetch_submodule_readme returned a path
    submodules_data,   \* main's submodules_data
    parser_submodules, \* parser.submodules
    parsed_data,       \* the value of the latest parser.parse()
    jsonFile,          \* the JSON file under output/
    reported,          \* what main printed at the end: "none", "success", "failure"
    pExit,             \* process exit status, -1 while running
    pFailure,          \* the failure main or a callee logged
    stages             \* the calls made so far, in order

pvars == <<ppc, argv1, doc, localReadme, fetcher, fetched_source, fetchLog, fetchResult,
           readme_file,
           out_name, submodule_infos, subIndex, subFetchOk, submodules_data,
           parser_submodules, parsed_data, jsonFile, reported, pExit, pFailure, stages>>

(***************************************************************************)
(* State of one ReadmeParser object whose methods are called directly      *)
(***************************************************************************)
VARIABLES
    content,           \* self.content: the lines of the README
    parser_fields,     \* self.required_inputs, self.optional_inputs, self.outputs
    calls,             \* the method calls made so far: name and arguments
    ret_text,          \* the text returned by the latest extract_section
    ret_entry,         \* the record returned by the latest entry parser
    ret_dict,          \* the mapping returned by the latest section parser
    ret_parsed,        \* the object returned by the latest parse()
    ret_requirements,  \* the object returned by the latest parse_requirements_section
    ret_name           \* the module name main derived from the title lines

rvars == <<content, parser_fields, calls, ret_text, ret_entry, ret_dict, ret_parsed,
           ret_requirements, ret_name>>

vars == <<fvars, pvars, rvars>>

\* no command-line argument, no JSON file, no parse result, no fetch yet
NoArg == <<"<noarg>">>
NoJson == [name |-> <<>>, data |-> <<>>]
\* the module_requirements object {} (no key at all)
NoRequirements == [keys |-> {}, required_version |-> <<>>, required_providers |-> <<>>]
NoData == [name |-> <<>>, keys |-> {}, inputs |-> <<>>, outputs |-> <<>>,
           module_requirements |-> NoRequirements, submodules |-> <<>>]
NoResult == [ok |-> FALSE, text |-> <<>>, branch |-> ""]
NoFetcher == [namespace |-> <<>>, name |-> <<>>, provider |-> <<>>,
              github_repo |-> <<>>, source_url |-> <<>>, repo_branch |-> ""]
\* the parsed entry {} (no key at all)
NoEntry == [name |-> <<>>, description |-> <<>>, type |-> <<>>, default |-> <<>>,
            required |-> FALSE, keys |-> {}]
\* the fields ReadmeParser.__init__ sets to empty mappings
NoFields == [required_inputs |-> <<>>, optional_inputs |-> <<>>, outputs |-> <<>>]

(***************************************************************************)
(* Generic helpers                                                         *)
(***************************************************************************)
SeqsUpTo(S, n) == UNION {[1..k -> S] : k \in 0..n}

Range(s) == {s[i] : i \in DOMAIN s}

\* smallest position of x in s (x must occur in s)
IndexOf(s, x) == CHOOSE i \in DOMAIN s : s[i] = x /\ \A j \in 1..(i-1) : s[j] # x

\* Python's None, and Python truthiness of a CSV field value
None == "<None>"
Truthy(v) == v # "" /\ v # None

\* a file that does not exist
NoFile == [header |-> <<"<nofile>">>, rows |-> <<>>]

(***************************************************************************)
(* avm_module_finder.py : CSV reading (csv.DictReader)                     *)
(***************************************************************************)
OUTPUT_COLUMNS ==
    <<"ProviderNamespace", "ResourceType", "ModuleName", "ModuleStatus",
      "RepoURL", "PublicRegistryReference">>

\* the static remap table {(namespace, deployment_type): avm_type}; empty
RESOURCE_TYPE_MAPPINGS == {}

\* DictReader: the value of column col in raw row r of a file with header h
RowGet(h, r, col) ==
    IF col \in Range(h) /\ IndexOf(h, col) \in DOMAIN r THEN r[IndexOf(h, col)] ELSE None

(***************************************************************************)
(* load_deployment_csv                                                     *)
(***************************************************************************)
\* the dict is an insertion-ordered sequence of [key, val] entries
DictKeys(d) == {d[i].key : i \in DOMAIN d}
DictGet(d, k) == IF k \in DictKeys(d)
                 THEN d[CHOOSE i \in DOMAIN d : d[i].key = k].val
                 ELSE <<>>

\* variant: the list of an existing key is replaced, not appended to
DictAppend_replace(d, k, v) ==
    IF k \in DictKeys(d)
    THEN [i \in DOMAIN d |-> IF d[i].key = k THEN [key |-> k, val |-> <<v>>] ELSE d[i]]
    ELSE Append(d, [key |-> k, val |-> <<v>>])

\* deployment_data[namespace].append(resource_type), creating the key first
DictAppend(d, k, v) ==
    IF k \in DictKeys(d)
    THEN [i \in DOMAIN d |-> IF d[i].key = k
                             THEN [key |-> k, val |-> Append(d[i].val, v)]
                             ELSE d[i]]
    ELSE Append(d, [key |-> k, val |-> <<v>>])

\* one iteration of the row loop of load_deployment_csv
LoadRowStep(d, h, r) ==
    LET namespace == RowGet(h, r, "ProviderNamespace")
        resource_type == RowGet(h, r, "ResourceType")
    IN IF Truthy(namespace) /\ Truthy(resource_type)
       THEN DictAppend(d, namespace, resource_type)
       ELSE d

RECURSIVE LoadRows(_, _, _, _)
LoadRows(d, h, rows, i) ==
    IF i > Len(rows) THEN d
    ELSE LoadRows(LoadRowStep(d, h, rows[i]), h, rows, i + 1)

\* the whole function: an error name, or the Deployment Index
load_deployment_csv(file) ==
    IF file = NoFile
    THEN [err |-> "FileNotFoundError", data |-> <<>>]
    ELSE IF "ProviderNamespace" \notin Range(file.header)
            \/ "ResourceType" \notin Range(file.header)
    THEN [err |-> "ValueError", data |-> <<>>]
    ELSE [err |-> "", data |-> LoadRows(<<>>, file.header, file.rows, 1)]

(***************************************************************************)
(* match_and_filter_modules                                                *)
(***************************************************************************)
direct_match(index, namespace, resource_type) ==
    /\ namespace \in DictKeys(index)
    /\ resource_type \in Range(DictGet(index, namespace))

mapped_match(index, namespace, resource_type) ==
    \E t \in Range(DictGet(index, namespace)) :
        <<<<namespace, t>>, resource_type>> \in RESOURCE_TYPE_MAPPINGS

\* variant: the status compared without regard to letter case
IsAvailable_nocase(module_status) == module_status \in {"Available", "available", "AVAILABLE"}

\* the status test of the filter
IsAvailable(module_status) == module_status = "Available"

\* does the loop body append this row to modules
RowMatches(index, h, r) ==
    LET namespace == RowGet(h, r, "ProviderNamespace")
        resource_type == RowGet(h, r, "ResourceType")
        module_status == RowGet(h, r, "ModuleStatus")
    IN /\ Truthy(namespace) /\ Truthy(resource_type) /\ Truthy(module_status)
       /\ \/ direct_match(index, namespace, resource_type)
          \/ mapped_match(index, namespace, resource_type)
       /\ IsAvailable(module_status)

\* matched_row = {column: row.get(column, '') for column in OUTPUT_COLUMNS}
MatchedRow(h, r) == [c \in Range(OUTPUT_COLUMNS) |-> RowGet(h, r, c)]

\* variant: a matching row is put in front of the list
MatchRowStep_prepend(matched, index, h, r) ==
    IF RowMatches(index, h, r) THEN <<MatchedRow(h, r)>> \o matched ELSE matched

\* one iteration of the row loop of match_and_filter_modules
MatchRowStep(matched, index, h, r) ==
    IF RowMatches(index, h, r) THEN Append(matched, MatchedRow(h, r)) ELSE matched

RECURSIVE MatchRows(_, _, _, _, _)
MatchRows(matched, index, h, rows, i) ==
    IF i > Len(rows) THEN matched
    ELSE MatchRows(MatchRowStep(matched, index, h, rows[i]),
                   index, h, rows, i + 1)

match_and_filter_modules(file, index) ==
    IF \E i \in DOMAIN OUTPUT_COLUMNS : OUTPUT_COLUMNS[i] \notin Range(file.header)
    THEN [err |-> "ValueError", matched |-> <<>>, columns |-> <<>>]
    ELSE [err |-> "",
          matched |-> MatchRows(<<>>, index, file.header, file.rows, 1),
          columns |-> OUTPUT_COLUMNS]

(***************************************************************************)
(* write_output_csv (csv.DictWriter: writeheader, writerows)               *)
(***************************************************************************)
WriteRow(column_names, m) == [j \in DOMAIN column_names |-> m[column_names[j]]]

\* variant: the columns are written in the order given, last first
write_output_csv_reversed(modules, column_names) ==
    LET rev == [j \in DOMAIN column_names |-> column_names[Len(column_names) + 1 - j]]
    IN [header |-> rev,
        rows |-> [i \in DOMAIN modules |-> WriteRow(rev, modules[i])]]

write_output_csv(modules, column_names) ==
    [header |-> column_names,
     rows |-> [i \in DOMAIN modules |-> WriteRow(column_names, modules[i])]]

(***************************************************************************)
(* Inputs of the Resource Matcher                                          *)
(***************************************************************************)
\* (namespace, resource type, status) of reference rows
RefTriples == {<<"Microsoft.Storage", "storageAccounts", "Available">>,
               <<"Microsoft.Storage", "virtualMachines", "Available">>,
               <<"Microsoft.Storage", "storageAccounts", "available">>,
               <<"Microsoft.Storage", "virtualMachines", "">>}
\* (namespace, resource type) pairs of deployment rows
DepPairs == {<<"Microsoft.Storage", "storageAccounts">>,
             <<"Microsoft.Storage", "virtualMachines">>,
             <<"Microsoft.Compute", "storageAccounts">>,
             <<"", "storageAccounts">>,
             <<"Microsoft.Storage", "">>}

\* a reference row as a mapping from column name to value
RefRecord(ns, rt, st) ==
    [c \in Range(OUTPUT_COLUMNS) \cup {"Extra"} |->
        CASE c = "ProviderNamespace" -> ns
          [] c = "ResourceType" -> rt
          [] c = "ModuleStatus" -> st
          [] c = "ModuleName" -> "avm-res"
          [] c = "RepoURL" -> "https://repo"
          [] c = "PublicRegistryReference" -> "Azure/avm-res/azurerm"
          [] OTHER -> "x"]

DepRecord(ns, rt) ==
    [c \in {"ProviderNamespace", "ResourceType", "Location"} |->
        CASE c = "ProviderNamespace" -> ns
          [] c = "ResourceType" -> rt
          [] OTHER -> "westeurope"]

\* the text line of a record in a file whose header is h
RawRow(h, rec) == [i \in DOMAIN h |-> rec[h[i]]]

RefRecords == {RefRecord(t[1], t[2], t[3]) : t \in RefTriples}
DepRecords == {DepRecord(p[1], p[2]) : p \in DepPairs}

GoodRefHeaders ==
    {OUTPUT_COLUMNS,
     <<"Extra", "PublicRegistryReference", "RepoURL", "ModuleStatus", "ModuleName",
       "ResourceType", "ProviderNamespace">>}
BadRefHeader == <<"ProviderNamespace", "ResourceType", "ModuleName", "RepoURL",
                  "PublicRegistryReference">>
GoodDepHeaders == {<<"ResourceType", "Location", "ProviderNamespace">>}
BadDepHeader == <<"ProviderNamespace", "Location">>

CsvFile(h, recs) == [header |-> h, rows |-> [i \in DOMAIN recs |-> RawRow(h, recs[i])]]

RefFiles == {CsvFile(h, recs) : h \in GoodRefHeaders, recs \in SeqsUpTo(RefRecords, MaxRefRows)}
                \cup {CsvFile(BadRefHeader, <<>>)}
DepFiles == {CsvFile(h, recs) : h \in GoodDepHeaders, recs \in SeqsUpTo(DepRecords, MaxDepRows)}
                \cup {CsvFile(BadDepHeader, <<>>), NoFile}

\* output/AVMModuleMaster.csv as left by an earlier run, and as left by a
\* write that failed after open(..., 'w') truncated it
OldOutput == [header |-> <<"old">>, rows |-> <<>>]
Truncated == [header |-> <<>>, rows |-> <<>>]

TempName == "working/TerraformResourceModules.csv"

(***************************************************************************)
(* avm_module_finder.py : main                                             *)
(***************************************************************************)
\* avm_module_finder.py is started; the other tool is not
InitFinder ==
    /\ fpc = "download"
    /\ no_cleanup \in BOOLEAN
    /\ deploymentCsv \in DepFiles
    /\ remoteCsv \in RefFiles
    /\ workingCsv = NoFile
    /\ temp_files = <<>>
    /\ deployment_data = <<>>
    /\ matched_modules = <<>>
    /\ columns = <<>>
    /\ outputCsv = OldOutput
    /\ exitStatus = -1
    /\ failedStep = "none"
    /\ interrupted = FALSE
    \* avm_module_parameter_parser.py
    /\ ppc = "start"
    /\ argv1 = NoArg
    /\ doc = [content |-> <<>>, modules |-> <<>>, localSubs |-> <<>>]
    /\ localReadme = "none"
    /\ fetcher = NoFetcher
    /\ fetched_source = <<>>
    /\ fetchLog = <<>>
    /\ fetchResult = NoResult
    /\ readme_file = <<>>
    /\ out_name = <<>>
    /\ submodule_infos = <<>>
    /\ subIndex = 1
    /\ subFetchOk = <<>>
    /\ submodules_data = <<>>
    /\ parser_submodules = <<>>
    /\ parsed_data = NoData
    /\ jsonFile = NoJson
    /\ reported = "none"
    /\ pExit = -1
    /\ pFailure = "none"
    /\ stages = <<>>
    \* no ReadmeParser is driven directly
    /\ content = <<>>
    /\ parser_fields = NoFields
    /\ calls = <<>>
    /\ ret_text = <<>>
    /\ ret_entry = NoEntry
    /\ ret_dict = <<>>
    /\ ret_parsed = NoData
    /\ ret_requirements = NoRequirements
    /\ ret_name = <<>>

Running == exitStatus = -1
Exited == exitStatus # -1

\* sys.exit(code): the process ends in the step it is at
Exit(code) == /\ exitStatus' = code
              /\ UNCHANGED fpc

\* Step 1: download_avm_modules, and main's except block around it
Download ==
    /\ Running
    /\ UNCHANGED <<pvars, rvars>>
    /\ fpc = "download"
    /\ \/ /\ workingCsv' = remoteCsv
          /\ temp_files' = Append(temp_files, TempName)
          /\ fpc' = "load"
          /\ UNCHANGED <<exitStatus, failedStep>>
       \/ /\ failedStep' = "download"
          /\ Exit(1)
          /\ UNCHANGED <<workingCsv, temp_files>>
    /\ UNCHANGED <<no_cleanup, deploymentCsv, remoteCsv, deployment_data,
                   matched_modules, columns, outputCsv, interrupted>>

\* Step 2: load_deployment_csv, and main's except blocks around it
Load ==
    /\ Running
    /\ UNCHANGED <<pvars, rvars>>
    /\ fpc = "load"
    /\ LET r == load_deployment_csv(deploymentCsv)
       IN IF r.err = ""
          THEN /\ deployment_data' = r.data
               /\ fpc' = "match"
               /\ UNCHANGED <<exitStatus, failedStep>>
          ELSE /\ failedStep' = "load"
               /\ Exit(1)
               /\ UNCHANGED deployment_data
    /\ UNCHANGED <<no_cleanup, deploymentCsv, remoteCsv, workingCsv, temp_files,
                   matched_modules, columns, outputCsv, interrupted>>

\* variant: the output file is opened for writing before the matching
Match_opens_output ==
    /\ Running
    /\ UNCHANGED <<pvars, rvars>>
    /\ fpc = "match"
    /\ LET r == match_and_filter_modules(workingCsv, deployment_data)
       IN IF r.err = ""
          THEN /\ matched_modules' = r.matched
               /\ columns' = r.columns
               /\ fpc' = "write"
               /\ UNCHANGED <<exitStatus, failedStep>>
          ELSE /\ failedStep' = "match"
               /\ Exit(1)
               /\ UNCHANGED <<matched_modules, columns>>
    /\ outputCsv' = Truncated
    /\ UNCHANGED <<no_cleanup, deploymentCsv, remoteCsv, workingCsv, temp_files,
                   deployment_data, interrupted>>

\* Step 3: match_and_filter_modules, and main's except block around it
Match ==
    /\ Running
    /\ UNCHANGED <<pvars, rvars>>
    /\ fpc = "match"
    /\ LET r == match_and_filter_modules(workingCsv, deployment_data)
       IN IF r.err = ""
          THEN /\ matched_modules' = r.matched
               /\ columns' = r.columns
               /\ fpc' = "write"
               /\ UNCHANGED <<exitStatus, failedStep>>
          ELSE /\ failedStep' = "match"
               /\ Exit(1)
               /\ UNCHANGED <<matched_modules, columns>>
    /\ UNCHANGED <<no_cleanup, deploymentCsv, remoteCsv, workingCsv, temp_files,
                   deployment_data, outputCsv, interrupted>>

\* Step 4: write_output_csv, and main's except block around it; a failed
\* write leaves the old file or the file truncated by open(..., 'w')
Write ==
    /\ Running
    /\ UNCHANGED <<pvars, rvars>>
    /\ fpc = "write"
    /\ \/ /\ outputCsv' = write_output_csv(matched_modules, columns)
          /\ fpc' = "cleanup"
          /\ UNCHANGED <<exitStatus, failedStep>>
       \/ /\ outputCsv' \in {outputCsv, Truncated}
          /\ failedStep' = "write"
          /\ Exit(1)
    /\ UNCHANGED <<no_cleanup, deploymentCsv, remoteCsv, workingCsv, temp_files,
                   deployment_data, matched_modules, columns, interrupted>>

\* cleanup_temp_files: os.remove of each listed file that exists; a failing
\* os.remove is logged and the file stays
cleanup_temp_files(files, removeOk) ==
    IF TempName \in Range(files) /\ workingCsv # NoFile /\ removeOk
    THEN NoFile
    ELSE workingCsv

\* Step 5: cleanup unless --no-cleanup, then main returns (exit status 0)
Cleanup ==
    /\ Running
    /\ UNCHANGED <<pvars, rvars>>
    /\ fpc = "cleanup"
    /\ IF ~no_cleanup
       THEN \E removeOk \in BOOLEAN : workingCsv' = cleanup_temp_files(temp_files, removeOk)
       ELSE UNCHANGED workingCsv
    /\ fpc' = "done"
    /\ exitStatus' = 0
    /\ UNCHANGED <<no_cleanup, deploymentCsv, remoteCsv, temp_files, deployment_data,
                   matched_modules, columns, outputCsv, failedStep, interrupted>>

\* variant: the interrupt handler exits with the general error status
Interrupt_exit1 ==
    /\ Running
    /\ UNCHANGED <<pvars, rvars>>
    /\ interrupted' = TRUE
    /\ Exit(1)
    /\ IF fpc = "write"
       THEN outputCsv' \in {outputCsv, Truncated}
       ELSE UNCHANGED outputCsv
    /\ UNCHANGED <<no_cleanup, deploymentCsv, remoteCsv, workingCsv, temp_files,
                   deployment_data, matched_modules, columns, failedStep>>

\* KeyboardInterrupt at any step: main's handler exits with 130; an
\* interrupted write may leave the output file truncated
Interrupt ==
    /\ Running
    /\ UNCHANGED <<pvars, rvars>>
    /\ interrupted' = TRUE
    /\ Exit(130)
    /\ IF fpc = "write"
       THEN outputCsv' \in {outputCsv, Truncated}
       ELSE UNCHANGED outputCsv
    /\ UNCHANGED <<no_cleanup, deploymentCsv, remoteCsv, workingCsv, temp_files,
                   deployment_data, matched_modules, columns, failedStep>>

NextFinder == Download \/ Load \/ Match \/ Write \/ Cleanup \/ Interrupt

(***************************************************************************)
(* avm_module_parameter_parser.py                                          *)
(*                                                                         *)
(* Text is a sequence of chunks.  A chunk is a separator ("/", "-", ":",   *)
(* "./"), one of the words the code tests for ("main", ".git",             *)
(* "README.md", "github.com") or a piece of text containing none of them,  *)
(* so a substring test for such a word is a membership test.               *)
(***************************************************************************)
MaxSubmodules == 2

\* str.split(sep)
RECURSIVE Split(_, _)
Split(s, sep) ==
    IF sep \notin Range(s) THEN <<s>>
    ELSE LET k == IndexOf(s, sep)
         IN <<SubSeq(s, 1, k - 1)>> \o Split(SubSeq(s, k + 1, Len(s)), sep)

\* str.replace(old, new) for a one-chunk old; new is a chunk sequence
RECURSIVE Replace(_, _, _)
Replace(s, old, new) ==
    IF s = <<>> THEN <<>>
    ELSE (IF Head(s) = old THEN new ELSE <<Head(s)>>) \o Replace(Tail(s), old, new)

\* str.strip('/')
RECURSIVE StripSlashes(_)
StripSlashes(s) ==
    IF s # <<>> /\ Head(s) = "/" THEN StripSlashes(Tail(s))
    ELSE IF s # <<>> /\ s[Len(s)] = "/" THEN StripSlashes(SubSeq(s, 1, Len(s) - 1))
    ELSE s

\* the insertion-ordered dict d with d[k] = v stored
DictPut(d, k, v) ==
    IF k \in DictKeys(d)
    THEN [i \in DOMAIN d |-> IF d[i].key = k THEN [key |-> k, val |-> v] ELSE d[i]]
    ELSE Append(d, [key |-> k, val |-> v])

(***************************************************************************)
(* TerraformRegistryFetcher                                                *)
(***************************************************************************)
\* variant: an identifier with more than three parts is accepted too
_parse_module_name_atleast3(module_name) ==
    LET parts == Split(module_name, "/")
    IN IF Len(parts) < 3
       THEN [err |-> "ValueError", namespace |-> <<>>, name |-> <<>>, provider |-> <<>>]
       ELSE [err |-> "", namespace |-> parts[1], name |-> parts[2], provider |-> parts[3]]

\* ValueError unless the identifier has exactly three parts
_parse_module_name(module_name) ==
    LET parts == Split(module_name, "/")
    IN IF Len(parts) # 3
       THEN [err |-> "ValueError", namespace |-> <<>>, name |-> <<>>, provider |-> <<>>]
       ELSE [err |-> "", namespace |-> parts[1], name |-> parts[2], provider |-> parts[3]]

github_raw_base_url == <<"https://raw.githubusercontent.com">>

\* the text after position p holds exactly "<no slash>+ / <no slash>+"
OwnerRepoToEnd(s, p) ==
    LET rest == SubSeq(s, p, Len(s))
    IN /\ Cardinality({i \in DOMAIN rest : rest[i] = "/"}) = 1
       /\ rest[1] # "/"
       /\ rest[Len(rest)] # "/"

\* the longest "<no slash>+ / <no slash>+" starting at position p, or <<>>
OwnerRepoPrefix(s, p) ==
    LET rest == SubSeq(s, p, Len(s))
        slashes == {i \in DOMAIN rest : rest[i] = "/"}
    IN IF slashes = {} THEN <<>>
       ELSE LET k == CHOOSE i \in slashes : \A j \in slashes : i <= j
                after == {i \in slashes : i > k}
                e == IF after = {} THEN Len(rest)
                     ELSE (CHOOSE i \in after : \A j \in after : i <= j) - 1
            IN IF k = 1 \/ e = k THEN <<>> ELSE SubSeq(rest, 1, e)

\* extract_github_repo: the two patterns in turn, then repo.replace(".git", "")
extract_github_repo(source_url) ==
    LET hosts == {i \in DOMAIN source_url : source_url[i] = "github.com" /\ i + 1 <= Len(source_url)}
        m1 == {i \in hosts : source_url[i + 1] \in {":", "/"} /\ i + 2 <= Len(source_url)
                             /\ OwnerRepoToEnd(source_url, i + 2)}
        m2 == {i \in hosts : source_url[i + 1] = "/" /\ OwnerRepoPrefix(source_url, i + 2) # <<>>}
    IN IF m1 # {}
       THEN LET i == CHOOSE x \in m1 : \A y \in m1 : x <= y
            IN Replace(SubSeq(source_url, i + 2, Len(source_url)), ".git", <<>>)
       ELSE IF m2 # {}
       THEN LET i == CHOOSE x \in m2 : \A y \in m2 : x <= y
            IN Replace(OwnerRepoPrefix(source_url, i + 2), ".git", <<>>)
       ELSE <<>>

\* the raw-content URL of a README on a branch
RawUrl(github_repo, branch, readme_path) ==
    github_raw_base_url \o <<"/">> \o github_repo \o <<"/", branch, "/">> \o readme_path

\* the path of the README below the repository root
ReadmePathOf(path) ==
    IF path = <<>> THEN <<"README.md">>
    ELSE IF path[Len(path)] = "README.md" THEN path
    ELSE path \o <<"/", "README.md">>

\* the branch fetch_readme_content reports for a URL that returned 200
BranchOfUrl(url) == IF "main" \in Range(url) THEN "main" ELSE "master"

\* variant: the master URL is tried first
fetch_readme_content_master_first(github_repo, path, outMain, outMaster) ==
    LET readme_path == ReadmePathOf(path)
        u1 == RawUrl(github_repo, "main", readme_path)
        u2 == RawUrl(github_repo, "master", readme_path)
        r1 == [url |-> u1, status |-> outMain]
        r2 == [url |-> u2, status |-> outMaster]
    IN IF outMaster = "200"
       THEN [ok |-> TRUE, text |-> u2, branch |-> BranchOfUrl(u2), log |-> <<r2>>]
       ELSE IF outMain = "200"
       THEN [ok |-> TRUE, text |-> u1, branch |-> BranchOfUrl(u1), log |-> <<r2, r1>>]
       ELSE [ok |-> FALSE, text |-> <<>>, branch |-> "", log |-> <<r2, r1>>]

\* fetch_readme_content: GET the main URL, then the master URL, stop at the
\* first HTTP 200.  outMain and outMaster are what the server answers.
fetch_readme_content(github_repo, path, outMain, outMaster) ==
    LET readme_path == ReadmePathOf(path)
        u1 == RawUrl(github_repo, "main", readme_path)
        u2 == RawUrl(github_repo, "master", readme_path)
        r1 == [url |-> u1, status |-> outMain]
        r2 == [url |-> u2, status |-> outMaster]
    IN IF outMain = "200"
       THEN [ok |-> TRUE, text |-> u1, branch |-> BranchOfUrl(u1), log |-> <<r1>>]
       ELSE IF outMaster = "200"
       THEN [ok |-> TRUE, text |-> u2, branch |-> BranchOfUrl(u2), log |-> <<r1, r2>>]
       ELSE [ok |-> FALSE, text |-> <<>>, branch |-> "", log |-> <<r1, r2>>]

\* the path fetch_submodule_readme asks for
SubmodulePath(submodule_path) ==
    LET p == StripSlashes(submodule_path)
    IN IF p # <<>> /\ Head(p) = "./" THEN Tail(p) ELSE p

(***************************************************************************)
(* Inputs of the README Extractor                                          *)
(***************************************************************************)
GoodId == <<"Azure", "/", "avm", "-", "res", "/", "azurerm">>
ShortId == <<"Azure", "/", "avm">>
LongId == <<"Azure", "/", "avm", "/", "azurerm", "/", "v1">>
BareId == <<"avm">>
ModuleArgs == {NoArg, GoodId, ShortId, LongId, BareId}

\* what the registry API returns in "source"
SourceUrls ==
    {<<"https://", "github.com", "/", "Azure", "/", "tf", "-", "avm">>,
     <<"git@", "github.com", ":", "do", "main", "/", "tf", ".git">>,
     <<"https://", "github.com", "/", "Azure", "/", "tf", ".git", "hub">>,
     <<"https://", "gitlab.com", "/", "Azure", "/", "tf">>,
     <<>>}

HttpOutcomes == {"200", "404", "RequestException"}

SubNames == {"pe", "lock"}
\* the entries of a "Modules" section: heading name and Source line
ModuleEntries ==
    {[id |-> n, name |-> n, source |-> <<"./", "modules", "/", n>>] : n \in SubNames}
        \cup {[id |-> "pe", name |-> "pe", source |-> <<"modules", "/", "pe">>]}

(***************************************************************************)
(* ReadmeParser                                                            *)
(***************************************************************************)
\* ReadmeParser.__init__: os.path.basename(readme_path).replace("_README.md", "")
ParserModuleName(file_name) == Replace(file_name, "_README.md", <<>>)

(***************************************************************************)
(* README text.  A text is a sequence of lines; a line is a record         *)
(* [k, a, b] of its kind and its two variable parts (chunk sequences):     *)
(*   "h1", "h2", "h3"  "# a", "## a", "### a"                              *)
(*   "mention"         b, then "## a", in the middle of a line             *)
(*   "text", "blank"   a line of prose a; an empty line                    *)
(*   "input"           ### <a name="input_b"></a> [a](#input\_b)           *)
(*   "input_cut"       ### <a name="input_b   (the rest is missing)        *)
(*   "output", "output_cut"   the same with output_                        *)
(*   "desc"            Description: a                                      *)
(*   "type"            Type: `a`     (a = <<>>: "Type:" with no `...`)     *)
(*   "hcl"             a fenced block ```hcl ... ``` with body a           *)
(*   "default"         Default: `a`  (a = <<>>: "Default:" with no `...`)  *)
(*   "req"             - <a name="requirement_a"></a> [a](#requirement\_a) *)
(*                     followed by " (b)" unless b = <<>>                  *)
(*   "req_bare"        <a name="requirement_a"></a> with no parenthesis    *)
(***************************************************************************)
Line(k, a, b) == [k |-> k, a |-> a, b |-> b]

Min(S) == CHOOSE x \in S : \A y \in S : x <= y

IsPrefix(p, s) == Len(p) <= Len(s) /\ SubSeq(s, 1, Len(p)) = p

\* str.strip() of a piece of one line
RECURSIVE StripChunks(_)
StripChunks(s) ==
    IF s # <<>> /\ Head(s) = " " THEN StripChunks(Tail(s))
    ELSE IF s # <<>> /\ s[Len(s)] = " " THEN StripChunks(SubSeq(s, 1, Len(s) - 1))
    ELSE s

\* str.strip() of a text: the empty lines at both ends go
RECURSIVE StripLines(_)
StripLines(t) ==
    IF t # <<>> /\ Head(t).k = "blank" THEN StripLines(Tail(t))
    ELSE IF t # <<>> /\ t[Len(t)].k = "blank" THEN StripLines(SubSeq(t, 1, Len(t) - 1))
    ELSE t

\* the text "## <section_name>" occurs in the line
HasSectionText(l, section_name) ==
    l.k \in {"h2", "h3", "mention"} /\ IsPrefix(section_name, l.a)

\* the line starts with "##" and a whitespace character
EndsSection(l) == l.k = "h2"

\* extract_section: re.search of "## <name>(.*?)(?:^##\s|\Z)" with DOTALL and
\* MULTILINE, then group(1).strip(); "" when there is no match
extract_section(text, section_name) ==
    LET starts == {i \in DOMAIN text : HasSectionText(text[i], section_name)}
    IN IF starts = {} THEN <<>>
       ELSE LET i == Min(starts)
                ends == {j \in DOMAIN text : j > i /\ EndsSection(text[j])}
                e == IF ends = {} THEN Len(text) ELSE Min(ends) - 1
                rest == StripChunks(SubSeq(text[i].a, Len(section_name) + 1, Len(text[i].a)))
                first == IF rest = <<>> THEN <<>> ELSE <<Line("text", rest, <<>>)>>
            IN StripLines(first \o SubSeq(text, i + 1, e))

\* "Description: (.*?)(?:Type:|$)" with DOTALL, stripped: the description
\* line and what follows it up to the first "Type:" or the end (stop = TRUE),
\* or always up to the end (stop = FALSE)
DescriptionOf(entry, stop) ==
    LET descs == {i \in DOMAIN entry : entry[i].k = "desc"}
    IN IF descs = {} THEN <<>>
       ELSE LET d == Min(descs)
                types == {j \in DOMAIN entry : j > d /\ entry[j].k = "type" /\ stop}
                e == IF types = {} THEN Len(entry) ELSE Min(types) - 1
                first == IF entry[d].a = <<>> THEN <<>>
                         ELSE <<Line("text", entry[d].a, <<>>)>>
            IN StripLines(first \o SubSeq(entry, d + 1, e))

\* variant: no ```hcl block is ever found
extract_hcl_block_none(text) == <<>>

\* extract_hcl_block: the stripped body of the first ```hcl block, or ""
extract_hcl_block(text) ==
    LET hcls == {i \in DOMAIN text : text[i].k = "hcl"}
    IN IF hcls = {} THEN <<>> ELSE StripChunks(text[Min(hcls)].a)

\* variant: an entry without "Default:" value gets the default ""
parse_input_entry_always_default(entry) ==
    LET names == {i \in DOMAIN entry : entry[i].k = "input"}
        types == {i \in DOMAIN entry : entry[i].k = "type" /\ entry[i].a # <<>>}
        defaults == {i \in DOMAIN entry : entry[i].k = "default" /\ entry[i].a # <<>>}
        hcl_block == extract_hcl_block(entry)
    IN IF names = {} THEN NoEntry
       ELSE [name |-> Replace(entry[Min(names)].a, "\\", <<>>),
             description |-> DescriptionOf(entry, TRUE),
             type |-> IF hcl_block # <<>> THEN hcl_block
                      ELSE IF types = {} THEN <<>> ELSE entry[Min(types)].a,
             default |-> IF defaults = {} THEN <<>> ELSE entry[Min(defaults)].a,
             required |-> FALSE,
             keys |-> {"name", "description", "type", "default"}]

\* variant: an entry without the name pattern gives a record with an empty name
parse_input_entry_unnamed(entry) ==
    LET names == {i \in DOMAIN entry : entry[i].k = "input"}
        types == {i \in DOMAIN entry : entry[i].k = "type" /\ entry[i].a # <<>>}
        defaults == {i \in DOMAIN entry : entry[i].k = "default" /\ entry[i].a # <<>>}
        hcl_block == extract_hcl_block(entry)
    IN [name |-> IF names = {} THEN <<>> ELSE Replace(entry[Min(names)].a, "\\", <<>>),
        description |-> DescriptionOf(entry, TRUE),
        type |-> IF hcl_block # <<>> THEN hcl_block
                 ELSE IF types = {} THEN <<>> ELSE entry[Min(types)].a,
        default |-> IF defaults = {} THEN <<>> ELSE entry[Min(defaults)].a,
        required |-> FALSE,
        keys |-> {"name", "description", "type"}
                    \cup (IF defaults = {} THEN {} ELSE {"default"})]

\* parse_input_entry
parse_input_entry(entry) ==
    LET names == {i \in DOMAIN entry : entry[i].k = "input"}
        types == {i \in DOMAIN entry : entry[i].k = "type" /\ entry[i].a # <<>>}
        defaults == {i \in DOMAIN entry : entry[i].k = "default" /\ entry[i].a # <<>>}
        hcl_block == extract_hcl_block(entry)
    IN IF names = {} THEN NoEntry
       ELSE [name |-> Replace(entry[Min(names)].a, "\\", <<>>),
             description |-> DescriptionOf(entry, TRUE),
             type |-> IF hcl_block # <<>> THEN hcl_block
                      ELSE IF types = {} THEN <<>> ELSE entry[Min(types)].a,
             default |-> IF defaults = {} THEN <<>> ELSE entry[Min(defaults)].a,
             required |-> FALSE,
             keys |-> {"name", "description", "type"}
                         \cup (IF defaults = {} THEN {} ELSE {"default"})]

\* parse_output_entry
parse_output_entry(entry) ==
    LET names == {i \in DOMAIN entry : entry[i].k = "output"}
    IN IF names = {} THEN NoEntry
       ELSE [NoEntry EXCEPT !.name = Replace(entry[Min(names)].a, "\\", <<>>),
                            !.description = DescriptionOf(entry, FALSE),
                            !.keys = {"name", "description"}]

\* re.split on the entry prefix: the piece that starts at line i
EntryAt(text, i, prefixes) ==
    LET nexts == {j \in DOMAIN text : j > i /\ text[j].k \in prefixes}
    IN SubSeq(text, i, IF nexts = {} THEN Len(text) ELSE Min(nexts) - 1)

\* the loop of parse_inputs_section over entries[1:], from line i on
RECURSIVE InputEntries(_, _, _, _)
InputEntries(result, section_text, is_required, i) ==
    IF i > Len(section_text) THEN result
    ELSE IF section_text[i].k \notin {"input", "input_cut"}
    THEN InputEntries(result, section_text, is_required, i + 1)
    ELSE LET parsed_entry == parse_input_entry(
                                 EntryAt(section_text, i, {"input", "input_cut"}))
         IN InputEntries(
                IF parsed_entry.keys # {} /\ "name" \in parsed_entry.keys
                THEN DictPut(result, parsed_entry.name,
                             [parsed_entry EXCEPT !.required = is_required,
                                                  !.keys = @ \cup {"required"}])
                ELSE result,
                section_text, is_required, i + 1)

parse_inputs_section(section_text, is_required) ==
    InputEntries(<<>>, section_text, is_required, 1)

\* the loop of parse_outputs_section over entries[1:], from line i on
RECURSIVE OutputEntries(_, _, _)
OutputEntries(result, section_text, i) ==
    IF i > Len(section_text) THEN result
    ELSE IF section_text[i].k \notin {"output", "output_cut"}
    THEN OutputEntries(result, section_text, i + 1)
    ELSE LET parsed_entry == parse_output_entry(
                                 EntryAt(section_text, i, {"output", "output_cut"}))
         IN OutputEntries(
                IF parsed_entry.keys # {} /\ "name" \in parsed_entry.keys
                THEN DictPut(result, parsed_entry.name, parsed_entry)
                ELSE result,
                section_text, i + 1)

parse_outputs_section(section_text) == OutputEntries(<<>>, section_text, 1)

\* the text captured by "\(([^)]+)\)$" on the stripped line: the version in
\* the trailing parentheses, or else the link target "(#requirement\_<name>)"
\* the line then ends with
TrailingParenthesis(l) ==
    IF l.b # <<>> THEN l.b ELSE <<"#requirement", "\\", "_">> \o l.a

\* the loop of parse_requirements_section over the lines, from line i on
RECURSIVE RequirementLines(_, _, _, _)
RequirementLines(terraform_version, providers, lines, i) ==
    IF i > Len(lines)
    THEN [terraform_version |-> terraform_version, providers |-> providers]
    ELSE IF lines[i].k # "req"
    THEN RequirementLines(terraform_version, providers, lines, i + 1)
    ELSE LET req_name == lines[i].a
             req_version == StripChunks(TrailingParenthesis(lines[i]))
         IN IF req_name = <<"terraform">>
            THEN RequirementLines(req_version, providers, lines, i + 1)
            ELSE RequirementLines(
                     terraform_version,
                     DictPut(providers, req_name,
                             [source |-> IF req_name = <<"modtm">>
                                         THEN <<"azure", "/", "modtm">>
                                         ELSE <<"hashicorp", "/">> \o req_name,
                              version |-> req_version]),
                     lines, i + 1)

\* parse_requirements_section: the "terraform" block, or {}
parse_requirements_section(section) ==
    LET found == RequirementLines(<<>>, <<>>, section, 1)
    IN IF found.terraform_version = <<>> /\ found.providers = <<>>
       THEN NoRequirements
       ELSE [keys |-> (IF found.terraform_version # <<>> THEN {"required_version"} ELSE {})
                         \cup (IF found.providers # <<>> THEN {"required_providers"} ELSE {}),
             required_version |-> found.terraform_version,
             required_providers |-> found.providers]

\* variant: the entries of the first mapping win
RECURSIVE DictMerge_first_wins(_, _)
DictMerge_first_wins(first, second) ==
    IF second = <<>> THEN first
    ELSE DictMerge_first_wins(
             IF Head(second).key \in DictKeys(first) THEN first
             ELSE DictPut(first, Head(second).key, Head(second).val),
             Tail(second))

\* {**first, **second}
RECURSIVE DictMerge(_, _)
DictMerge(first, second) ==
    IF second = <<>> THEN first
    ELSE DictMerge(DictPut(first, Head(second).key, Head(second).val), Tail(second))

\* variant: the key is always added
RequirementsKey_always(module_requirements) == {"module_requirements"}

\* result[module_name]["module_requirements"] is set if module_requirements
RequirementsKey(module_requirements) ==
    IF module_requirements.keys # {} THEN {"module_requirements"} ELSE {}

\* the README of a submodule, on disk or in the repository: it has sections
\* of its own for requirements and for modules below it
SubmoduleReadme ==
    <<Line("h1", <<"pe">>, <<>>),
      Line("h2", <<"Requirements">>, <<>>),
      Line("req", <<"azurerm">>, <<"~> 4.0">>),
      Line("h2", <<"Required Inputs">>, <<>>),
      Line("input", <<"name">>, <<"name">>),
      Line("desc", <<"The name.">>, <<>>), Line("type", <<"string">>, <<>>),
      Line("h2", <<"Optional Inputs">>, <<>>),
      Line("input", <<"tags">>, <<"tags">>),
      Line("desc", <<"The tags.">>, <<>>), Line("type", <<"map(string)">>, <<>>),
      Line("default", <<"null">>, <<>>),
      Line("h2", <<"Outputs">>, <<>>),
      Line("output", <<"id">>, <<"id">>), Line("desc", <<"The ID.">>, <<>>),
      Line("h2", <<"Modules">>, <<>>),
      Line("text", <<"deep">>, <<>>),
      Line("h2", <<"Submodules">>, <<>>),
      Line("text", <<"deep">>, <<>>)>>

\* parse_readme_directly: the inputs and outputs of a README that was read
parse_readme_directly(readme_content) ==
    [inputs |-> DictMerge(
                    parse_inputs_section(
                        extract_section(readme_content, <<"Required Inputs">>), TRUE),
                    parse_inputs_section(
                        extract_section(readme_content, <<"Optional Inputs">>), FALSE)),
     outputs |-> parse_outputs_section(extract_section(readme_content, <<"Outputs">>))]

\* what parsing the README of a submodule gives
SubmoduleData == parse_readme_directly(SubmoduleReadme)

\* variant: the entry of a fetched submodule carries its requirements too
SubmoduleEntry_with_requirements(info, parsed) ==
    [name |-> info.name, kind |-> "registry",
     keys |-> {"name", "path", "description", "inputs", "outputs", "module_requirements"},
     inputs |-> parsed.inputs, outputs |-> parsed.outputs]

\* main: the entry stored in submodules_data for a fetched submodule
SubmoduleEntry(info, parsed) ==
    [name |-> info.name, kind |-> "registry",
     keys |-> {"name", "path", "description", "inputs", "outputs"},
     inputs |-> parsed.inputs, outputs |-> parsed.outputs]

\* variant: the "Submodules" section is not looked at
process_submodules_skipped(submodules, names, i) == submodules

\* process_submodules: an entry per local submodule README, keyed by name
RECURSIVE process_submodules(_, _, _)
process_submodules(submodules, names, i) ==
    IF i > Len(names) THEN submodules
    ELSE process_submodules(
             DictPut(submodules, names[i],
                     [name |-> names[i], kind |-> "local",
                      keys |-> {"name", "inputs", "outputs", "description"},
                      inputs |-> SubmoduleData.inputs,
                      outputs |-> SubmoduleData.outputs]),
             names, i + 1)

\* parse: the result object and the parser's submodules afterwards
parse(module_name, d, submodules) ==
    LET requirements_section == extract_section(d.content, <<"Requirements">>)
        required_inputs_section == extract_section(d.content, <<"Required Inputs">>)
        optional_inputs_section == extract_section(d.content, <<"Optional Inputs">>)
        outputs_section == extract_section(d.content, <<"Outputs">>)
        required_inputs == parse_inputs_section(required_inputs_section, TRUE)
        optional_inputs == parse_inputs_section(optional_inputs_section, FALSE)
        module_requirements == parse_requirements_section(requirements_section)
        subs == process_submodules(submodules, d.localSubs, 1)
    IN [name |-> module_name,
        keys |-> {"name", "description", "inputs", "outputs"}
                    \cup RequirementsKey(module_requirements)
                    \cup (IF subs # <<>> THEN {"submodules"} ELSE {}),
        inputs |-> DictMerge(required_inputs, optional_inputs),
        outputs |-> parse_outputs_section(outputs_section),
        module_requirements |-> module_requirements,
        submodules |-> subs]

\* main looks for a title in lines[:10]
FirstLines == 10

\* str.strip("# "): the "#" and the blanks at both ends go
RECURSIVE StripTitle(_)
StripTitle(s) ==
    IF s # <<>> /\ Head(s) \in {"#", " "} THEN StripTitle(Tail(s))
    ELSE IF s # <<>> /\ s[Len(s)] \in {"#", " "} THEN StripTitle(SubSeq(s, 1, Len(s) - 1))
    ELSE s

\* str.lower() of a file name
Lower(s) == [i \in DOMAIN s |-> IF s[i] = "README" THEN "readme" ELSE s[i]]

\* the name main takes from a title: the last two of more than three
\* hyphen-delimited parts, the last of three, or None
TitleName(title) ==
    LET parts == Split(title, "-")
        n == Len(parts)
    IN IF "terraform" \in Range(title) /\ "-" \in Range(title) /\ n >= 3
       THEN IF n > 3 THEN parts[n - 1] \o <<"-">> \o parts[n] ELSE parts[n]
       ELSE <<>>

\* variant: the first of the lines[:10] that gives a name is taken
TitleModuleName_any_title(lines, file_name) ==
    LET first == SubSeq(lines, 1, Min({Len(lines), FirstLines}))
        named == {i \in DOMAIN first :
                     first[i].k = "h1" /\ TitleName(StripTitle(first[i].a)) # <<>>}
        module_name == IF named = {} THEN <<>>
                       ELSE TitleName(StripTitle(first[Min(named)].a))
        base_name == Lower(Replace(file_name, ".md", <<>>))
        name == IF module_name # <<>> THEN module_name
                ELSE IF base_name # <<>> THEN base_name ELSE <<"terraform_module">>
    IN Replace(Replace(name, "-", <<"_">>), " ", <<"_">>)

\* main's derivation of the module name for a file not named *_README.md:
\* the loop over lines[:10] stops at the first line that starts with "# "
TitleModuleName(lines, file_name) ==
    LET first == SubSeq(lines, 1, Min({Len(lines), FirstLines}))
        titles == {i \in DOMAIN first : first[i].k = "h1"}
        module_name == IF titles = {} THEN <<>>
                       ELSE TitleName(StripTitle(first[Min(titles)].a))
        base_name == Lower(Replace(file_name, ".md", <<>>))
        name == IF module_name # <<>> THEN module_name
                ELSE IF base_name # <<>> THEN base_name ELSE <<"terraform_module">>
    IN Replace(Replace(name, "-", <<"_">>), " ", <<"_">>)

\* the first lines of a README: nothing, or its title
Headings ==
    {<<>>,
     <<Line("h1", <<"terraform", "-", "azurerm", "-", "avm", "-", "res", "-", "kv">>, <<>>)>>}

\* the sections of requirements, inputs and outputs of a README
DocContent ==
    <<Line("h2", <<"Requirements">>, <<>>),
      Line("req", <<"terraform">>, <<">= 1.9">>),
      Line("h2", <<"Required Inputs">>, <<>>),
      Line("input", <<"location">>, <<"location">>),
      Line("desc", <<"The region.">>, <<>>), Line("type", <<"string">>, <<>>),
      Line("h2", <<"Outputs">>, <<>>),
      Line("output", <<"name">>, <<"name">>), Line("desc", <<"The name.">>, <<>>)>>

\* a README: its text, the entries of its "Modules" section, and the names
\* in its "Submodules" section that have a README on disk
Docs == {[content |-> h \o DocContent, modules |-> m, localSubs |-> l] :
            h \in Headings,
            m \in SeqsUpTo(ModuleEntries, MaxSubmodules),
            l \in {<<>>, <<"pe">>}}

(***************************************************************************)
(* avm_module_parameter_parser.py : main                                   *)
(***************************************************************************)

\* avm_module_parameter_parser.py is started; the other tool is not
InitParser ==
    /\ ppc = "start"
    /\ argv1 \in ModuleArgs
    /\ doc \in Docs
    /\ localReadme \in {"working", "root", "none"}
    /\ fetcher = NoFetcher
    /\ fetched_source = <<>>
    /\ fetchLog = <<>>
    /\ fetchResult = NoResult
    /\ readme_file = <<>>
    /\ out_name = <<>>
    /\ submodule_infos = <<>>
    /\ subIndex = 1
    /\ subFetchOk = <<>>
    /\ submodules_data = <<>>
    /\ parser_submodules = <<>>
    /\ parsed_data = NoData
    /\ jsonFile = NoJson
    /\ reported = "none"
    /\ pExit = -1
    /\ pFailure = "none"
    /\ stages = <<>>
    \* avm_module_finder.py
    /\ fpc = "download"
    /\ no_cleanup = FALSE
    /\ deploymentCsv = NoFile
    /\ remoteCsv = NoFile
    /\ workingCsv = NoFile
    /\ temp_files = <<>>
    /\ deployment_data = <<>>
    /\ matched_modules = <<>>
    /\ columns = <<>>
    /\ outputCsv = OldOutput
    /\ exitStatus = -1
    /\ failedStep = "none"
    /\ interrupted = FALSE
    \* no ReadmeParser is driven directly
    /\ content = <<>>
    /\ parser_fields = NoFields
    /\ calls = <<>>
    /\ ret_text = <<>>
    /\ ret_entry = NoEntry
    /\ ret_dict = <<>>
    /\ ret_parsed = NoData
    /\ ret_requirements = NoRequirements
    /\ ret_name = <<>>

PRunning == pExit = -1
PExited == pExit # -1
RegistryMode == argv1 # NoArg

\* variant: the failure is logged and main goes on with the next stage
ReturnFromMain_continue(failure) ==
    /\ pFailure' = failure
    /\ ppc' = "derive_name"
    /\ UNCHANGED pExit

\* main returns after logging a failure: the interpreter exits with status 0
ReturnFromMain(failure) ==
    /\ pFailure' = failure
    /\ pExit' = 0
    /\ UNCHANGED ppc

\* main, registry mode: TerraformRegistryFetcher(module_name); a ValueError
\* goes to main's "except Exception", which prints and returns
Construct ==
    /\ PRunning /\ ppc = "start" /\ RegistryMode
    /\ UNCHANGED <<fvars, rvars>>
    /\ stages' = Append(stages, "construct")
    /\ LET r == _parse_module_name(argv1)
       IN IF r.err # ""
          THEN /\ ReturnFromMain("identifier")
               /\ UNCHANGED fetcher
          ELSE /\ fetcher' = [NoFetcher EXCEPT !.namespace = r.namespace,
                                               !.name = r.name,
                                               !.provider = r.provider]
               /\ ppc' = "fetch_module_source"
               /\ UNCHANGED <<pFailure, pExit>>
    /\ UNCHANGED <<argv1, doc, localReadme, fetched_source, fetchLog, fetchResult, readme_file, out_name,
                   submodule_infos, subIndex, subFetchOk, submodules_data,
                   parser_submodules, parsed_data, jsonFile, reported>>

\* main, local mode: working/README.md, else ./README.md, else give up
UseLocalReadme ==
    /\ PRunning /\ ppc = "start" /\ ~RegistryMode
    /\ UNCHANGED <<fvars, rvars>>
    /\ stages' = Append(stages, "local_readme")
    /\ IF localReadme = "none"
       THEN /\ ReturnFromMain("no_readme")
            /\ UNCHANGED readme_file
       ELSE /\ readme_file' = <<"README", ".md">>
            /\ ppc' = "derive_name"
            /\ UNCHANGED <<pFailure, pExit>>
    /\ UNCHANGED <<argv1, doc, localReadme, fetcher, fetched_source, fetchLog, fetchResult, out_name,
                   submodule_infos, subIndex, subFetchOk, submodules_data,
                   parser_submodules, parsed_data, jsonFile, reported>>

\* fetch_module_source: the registry answers with a source URL (maybe
\* empty), or the request fails
FetchModuleSource ==
    /\ PRunning /\ ppc = "fetch_module_source"
    /\ UNCHANGED <<fvars, rvars>>
    /\ stages' = Append(stages, "fetch_module_source")
    /\ \/ \E u \in SourceUrls :
            IF u = <<>>
            THEN /\ ReturnFromMain("source")
                 /\ UNCHANGED fetched_source
            ELSE /\ fetched_source' = u
                 /\ ppc' = "extract_github_repo"
                 /\ UNCHANGED <<pFailure, pExit>>
       \/ /\ ReturnFromMain("source")
          /\ UNCHANGED fetched_source
    /\ UNCHANGED <<argv1, doc, localReadme, fetcher, fetchLog, fetchResult, readme_file, out_name,
                   submodule_infos, subIndex, subFetchOk, submodules_data,
                   parser_submodules, parsed_data, jsonFile, reported>>

\* extract_github_repo, and the check of its result in fetch_and_save_readme
ExtractGithubRepo ==
    /\ PRunning /\ ppc = "extract_github_repo"
    /\ UNCHANGED <<fvars, rvars>>
    /\ stages' = Append(stages, "extract_github_repo")
    /\ LET repo == extract_github_repo(fetched_source)
       IN IF repo = <<>>
          THEN /\ ReturnFromMain("repo")
               /\ UNCHANGED fetcher
          ELSE /\ fetcher' = [fetcher EXCEPT !.github_repo = repo,
                                             !.source_url = fetched_source]
               /\ ppc' = "fetch_readme_content"
               /\ UNCHANGED <<pFailure, pExit>>
    /\ UNCHANGED <<argv1, doc, localReadme, fetched_source, fetchLog, fetchResult, readme_file, out_name,
                   submodule_infos, subIndex, subFetchOk, submodules_data,
                   parser_submodules, parsed_data, jsonFile, reported>>

\* fetch_readme_content for the top-level README, then the save to
\* working/<name>_README.md
FetchTopReadme ==
    /\ PRunning /\ ppc = "fetch_readme_content"
    /\ UNCHANGED <<fvars, rvars>>
    /\ stages' = Append(stages, "fetch_readme_content")
    /\ \E outMain \in HttpOutcomes, outMaster \in HttpOutcomes, saveOk \in BOOLEAN :
          LET r == fetch_readme_content(fetcher.github_repo, <<>>, outMain, outMaster)
          IN /\ fetchLog' = r.log
             /\ fetchResult' = [ok |-> r.ok, text |-> r.text, branch |-> r.branch]
             /\ IF ~r.ok
                THEN /\ ReturnFromMain("fetch")
                     /\ UNCHANGED <<fetcher, readme_file>>
                ELSE /\ fetcher' = [fetcher EXCEPT !.repo_branch = r.branch]
                     /\ IF saveOk
                        THEN /\ readme_file' = Replace(fetcher.name, "-", <<"_">>)
                                                  \o <<"_README.md">>
                             /\ ppc' = "derive_name"
                             /\ UNCHANGED <<pFailure, pExit>>
                        ELSE /\ ReturnFromMain("save")
                             /\ UNCHANGED readme_file
    /\ UNCHANGED <<argv1, doc, localReadme, fetched_source, out_name,
                   submodule_infos, subIndex, subFetchOk, submodules_data,
                   parser_submodules, parsed_data, jsonFile, reported>>

\* main: the module name of the output path
DeriveName ==
    /\ PRunning /\ ppc = "derive_name"
    /\ UNCHANGED <<fvars, rvars>>
    /\ stages' = Append(stages, "derive_name")
    /\ out_name' = IF "_README.md" \in Range(readme_file)
                   THEN Replace(readme_file, "_README.md", <<>>)
                   ELSE TitleModuleName(doc.content, readme_file)
    /\ ppc' = "read_file"
    /\ UNCHANGED <<argv1, doc, localReadme, fetcher, fetched_source, fetchLog, fetchResult, readme_file,
                   submodule_infos, subIndex, subFetchOk, submodules_data,
                   parser_submodules, parsed_data, jsonFile, reported, pExit, pFailure>>

\* main: parser = ReadmeParser(readme_path); parser.read_file(); in registry
\* mode the "Modules" section is searched for submodules
ReadFile ==
    /\ PRunning /\ ppc = "read_file"
    /\ UNCHANGED <<fvars, rvars>>
    /\ stages' = Append(stages, "read_file")
    /\ IF RegistryMode /\ fetcher.github_repo # <<>>
       THEN /\ submodule_infos' =
                  [i \in DOMAIN doc.modules |->
                      [id |-> doc.modules[i].id,
                       name |-> doc.modules[i].name,
                       path |-> IF Head(doc.modules[i].source) = "./"
                                THEN Tail(doc.modules[i].source)
                                ELSE doc.modules[i].source]]
            /\ ppc' = "submodules"
       ELSE /\ ppc' = "parse"
            /\ UNCHANGED submodule_infos
    /\ UNCHANGED <<argv1, doc, localReadme, fetcher, fetched_source, fetchLog, fetchResult, readme_file,
                   out_name, subIndex, subFetchOk, submodules_data,
                   parser_submodules, parsed_data, jsonFile, reported, pExit, pFailure>>

\* variant: a submodule whose fetch fails ends the run
FetchSubmodule_abort ==
    /\ PRunning /\ ppc = "submodules" /\ subIndex <= Len(submodule_infos)
    /\ UNCHANGED <<fvars, rvars>>
    /\ \E outMain \in HttpOutcomes, outMaster \in HttpOutcomes, saveOk \in BOOLEAN :
          LET info == submodule_infos[subIndex]
              r == fetch_readme_content(fetcher.github_repo, SubmodulePath(info.path),
                                        outMain, outMaster)
              ok == r.ok /\ saveOk
          IN /\ fetchLog' = r.log
             /\ fetchResult' = [ok |-> r.ok, text |-> r.text, branch |-> r.branch]
             /\ fetcher' = IF r.ok THEN [fetcher EXCEPT !.repo_branch = r.branch] ELSE fetcher
             /\ subFetchOk' = Append(subFetchOk, ok)
             /\ IF ok
                THEN /\ submodules_data' =
                           DictPut(submodules_data, info.name,
                                   SubmoduleEntry(info, SubmoduleData))
                     /\ stages' = stages \o <<"fetch_submodule_readme", "parse_readme_directly">>
                ELSE /\ UNCHANGED submodules_data
                     /\ stages' = Append(stages, "fetch_submodule_readme")
             /\ IF ok
                THEN UNCHANGED <<ppc, pExit, pFailure>>
                ELSE ReturnFromMain("fetch")
    /\ subIndex' = subIndex + 1
    /\ UNCHANGED <<argv1, doc, localReadme, fetched_source, readme_file, out_name,
                   submodule_infos, parser_submodules, parsed_data, jsonFile, reported>>

\* one turn of main's loop over submodule_infos: fetch_submodule_readme,
\* and for a fetched README parse_readme_directly and the store
FetchSubmodule ==
    /\ PRunning /\ ppc = "submodules" /\ subIndex <= Len(submodule_infos)
    /\ UNCHANGED <<fvars, rvars>>
    /\ \E outMain \in HttpOutcomes, outMaster \in HttpOutcomes, saveOk \in BOOLEAN :
          LET info == submodule_infos[subIndex]
              r == fetch_readme_content(fetcher.github_repo, SubmodulePath(info.path),
                                        outMain, outMaster)
              ok == r.ok /\ saveOk
          IN /\ fetchLog' = r.log
             /\ fetchResult' = [ok |-> r.ok, text |-> r.text, branch |-> r.branch]
             /\ fetcher' = IF r.ok THEN [fetcher EXCEPT !.repo_branch = r.branch] ELSE fetcher
             /\ subFetchOk' = Append(subFetchOk, ok)
             /\ IF ok
                THEN /\ submodules_data' =
                           DictPut(submodules_data, info.name,
                                   SubmoduleEntry(info, SubmoduleData))
                     /\ stages' = stages \o <<"fetch_submodule_readme", "parse_readme_directly">>
                ELSE /\ UNCHANGED submodules_data
                     /\ stages' = Append(stages, "fetch_submodule_readme")
    /\ subIndex' = subIndex + 1
    /\ UNCHANGED <<ppc, argv1, doc, localReadme, fetched_source, readme_file, out_name,
                   submodule_infos, parser_submodules, parsed_data, jsonFile, reported,
                   pExit, pFailure>>

\* after the loop: parser.set_submodules(submodules_data) when it is not empty
SetSubmodules ==
    /\ PRunning /\ ppc = "submodules" /\ subIndex > Len(submodule_infos)
    /\ UNCHANGED <<fvars, rvars>>
    /\ parser_submodules' = IF submodules_data # <<>> THEN submodules_data ELSE parser_submodules
    /\ ppc' = "parse"
    /\ UNCHANGED <<argv1, doc, localReadme, fetcher, fetched_source, fetchLog, fetchResult, readme_file,
                   out_name, submodule_infos, subIndex, subFetchOk, submodules_data,
                   parsed_data, jsonFile, reported, pExit, pFailure, stages>>

\* main: parsed_data = parser.parse()
Parse ==
    /\ PRunning /\ ppc = "parse"
    /\ UNCHANGED <<fvars, rvars>>
    /\ stages' = Append(stages, "parse")
    /\ LET r == parse(ParserModuleName(readme_file), doc, parser_submodules)
       IN /\ parsed_data' = r
          /\ parser_submodules' = r.submodules
    /\ ppc' = "to_json"
    /\ UNCHANGED <<argv1, doc, localReadme, fetcher, fetched_source, fetchLog, fetchResult, readme_file,
                   out_name, submodule_infos, subIndex, subFetchOk, submodules_data,
                   jsonFile, reported, pExit, pFailure>>

\* main: json_data = parser.to_json(output_path), which parses again and
\* returns the JSON text also when writing the file failed; main then
\* reports and returns
ToJson ==
    /\ PRunning /\ ppc = "to_json"
    /\ UNCHANGED <<fvars, rvars>>
    /\ stages' = Append(stages, "to_json")
    /\ \E writeOk \in BOOLEAN :
          LET r == parse(ParserModuleName(readme_file), doc, parser_submodules)
          IN /\ parsed_data' = r
             /\ parser_submodules' = r.submodules
             /\ jsonFile' = IF writeOk THEN [name |-> out_name, data |-> r] ELSE jsonFile
             /\ pFailure' = IF writeOk THEN pFailure ELSE "write"
    /\ reported' = "success"
    /\ ppc' = "done"
    /\ pExit' = 0
    /\ UNCHANGED <<argv1, doc, localReadme, fetcher, fetched_source, fetchLog, fetchResult, readme_file,
                   out_name, submodule_infos, subIndex, subFetchOk, submodules_data>>

\* KeyboardInterrupt: the handler around main() calls sys.exit(1)
PInterrupt ==
    /\ PRunning
    /\ UNCHANGED <<fvars, rvars>>
    /\ pFailure' = "interrupt"
    /\ pExit' = 1
    /\ UNCHANGED <<ppc, argv1, doc, localReadme, fetcher, fetched_source, fetchLog, fetchResult,
                   readme_file, out_name, submodule_infos, subIndex, subFetchOk,
                   submodules_data, parser_submodules, parsed_data, jsonFile, reported,
                   stages>>

NextParser ==
    \/ Construct \/ UseLocalReadme \/ FetchModuleSource \/ ExtractGithubRepo
    \/ FetchTopReadme \/ DeriveName \/ ReadFile \/ FetchSubmodule \/ SetSubmodules
    \/ Parse \/ ToJson \/ PInterrupt

(***************************************************************************)
(* ReadmeParser driven directly: a parser is constructed on a README and   *)
(* its methods are called, at most MaxCalls times                          *)
(***************************************************************************)
MaxDocLines == 3
MaxCalls == 2

\* the headings asked for
SectionNames == {<<"Outputs">>, <<"Resources">>}

\* READMEs made of headings and prose
SectionLines ==
    {Line("h2", <<"Outputs">>, <<>>),
     Line("h2", <<"Outputs", " ", "extra">>, <<>>),
     Line("h2", <<"outputs">>, <<>>),
     Line("h3", <<"Outputs">>, <<>>),
     Line("mention", <<"Outputs">>, <<"see">>),
     Line("h2", <<"Resources">>, <<>>),
     Line("h3", <<"sub">>, <<>>),
     Line("text", <<"prose">>, <<>>),
     Line("blank", <<>>, <<>>)}
SectionDocs == SeqsUpTo(SectionLines, MaxDocLines)

\* sections of entries: a heading line of an entry, then its body
MaxEntries == 2

RECURSIVE Concat(_)
Concat(ss) == IF ss = <<>> THEN <<>> ELSE Head(ss) \o Concat(Tail(ss))

InputSectionNames == {<<"Required Inputs">>, <<"Optional Inputs">>}
InputHeads ==
    {Line("input", <<"location">>, <<"location">>),
     Line("input", <<"resource", "\\", "_", "group">>, <<"resource_group">>),
     Line("input_cut", <<>>, <<"name">>),
     Line("h3", <<"tags">>, <<>>)}
InputBodies ==
    {<<>>,
     <<Line("blank", <<>>, <<>>), Line("desc", <<"The region.">>, <<>>),
       Line("blank", <<>>, <<>>), Line("type", <<"string">>, <<>>)>>,
     <<Line("desc", <<"The region.">>, <<>>), Line("type", <<"string">>, <<>>),
       Line("default", <<"null">>, <<>>)>>,
     <<Line("desc", <<"The rules.">>, <<>>), Line("type", <<>>, <<>>),
       Line("hcl", <<"map(object({}))">>, <<>>), Line("default", <<>>, <<>>),
       Line("text", <<"{}">>, <<>>)>>,
     <<Line("desc", <<"The region.">>, <<>>), Line("default", <<"null">>, <<>>)>>}
InputEntrySet == {<<h>> \o b : h \in InputHeads, b \in InputBodies}
InputSections == {Concat(es) : es \in SeqsUpTo(InputEntrySet, MaxEntries)}
InputDocs == {<<Line("h2", <<"Required Inputs">>, <<>>)>> \o sec : sec \in InputSections}

OutputHeads ==
    {Line("output", <<"resource", "\\", "_", "id">>, <<"resource_id">>),
     Line("output", <<"name">>, <<"name">>),
     Line("output_cut", <<>>, <<"name">>),
     Line("h3", <<"tags">>, <<>>)}
OutputBodies ==
    {<<>>,
     <<Line("blank", <<>>, <<>>), Line("desc", <<"The ID.">>, <<>>)>>,
     <<Line("desc", <<"The ID.">>, <<>>), Line("type", <<"string">>, <<>>)>>}
OutputEntrySet == {<<h>> \o b : h \in OutputHeads, b \in OutputBodies}
OutputSections == {Concat(es) : es \in SeqsUpTo(OutputEntrySet, MaxEntries)}
OutputDocs == {<<Line("h2", <<"Outputs">>, <<>>)>> \o sec : sec \in OutputSections}

\* "Requirements" sections: list lines of terraform-docs, with a version in
\* trailing parentheses, with a blank one or with none, and other lines
MaxReqLines == 2
ReqLines ==
    {Line("req", <<"terraform">>, <<">= 1.9">>),
     Line("req", <<"terraform">>, <<" ">>),
     Line("req", <<"terraform">>, <<>>),
     Line("req", <<"azurerm">>, <<"~> 4.0">>),
     Line("req", <<"azurerm">>, <<" ", ">= 3.71", " ">>),
     Line("req", <<"azurerm">>, <<>>),
     Line("req", <<"modtm">>, <<"~> 0.3">>),
     Line("req_bare", <<"azurerm">>, <<>>),
     Line("text", <<"The following requirements are needed by this module:">>, <<>>)}
ReqSections == SeqsUpTo(ReqLines, MaxReqLines)
ReqDocs == {<<Line("h2", <<"Requirements">>, <<>>)>> \o sec : sec \in ReqSections}

\* whole READMEs: each of the four sections is there or not
WholeReqParts ==
    {<<>>,
     <<Line("h2", <<"Requirements">>, <<>>)>>,
     <<Line("h2", <<"Requirements">>, <<>>), Line("req_bare", <<"azurerm">>, <<>>)>>,
     <<Line("h2", <<"Requirements">>, <<>>), Line("req", <<"terraform">>, <<">= 1.9">>),
       Line("req", <<"modtm">>, <<"~> 0.3">>)>>}
WholeEntrySet ==
    {<<Line("input", <<"location">>, <<"location">>),
       Line("desc", <<"The region.">>, <<>>), Line("type", <<"string">>, <<>>)>>,
     <<Line("input", <<"location">>, <<"location">>),
       Line("desc", <<"Where.">>, <<>>), Line("type", <<"string">>, <<>>),
       Line("default", <<"null">>, <<>>)>>,
     <<Line("input", <<"resource", "\\", "_", "group">>, <<"resource_group">>),
       Line("desc", <<"The group.">>, <<>>), Line("type", <<"string">>, <<>>)>>,
     <<Line("input_cut", <<>>, <<"name">>), Line("desc", <<"The name.">>, <<>>)>>}
WholeInputParts(section_name) ==
    {<<>>} \cup {<<Line("h2", section_name, <<>>)>> \o Concat(es) :
                    es \in SeqsUpTo(WholeEntrySet, MaxEntries)}
WholeOutputParts ==
    {<<>>,
     <<Line("h2", <<"Outputs">>, <<>>), Line("output", <<"name">>, <<"name">>),
       Line("desc", <<"The name.">>, <<>>)>>}
WholeDocs ==
    {q \o r \o o \o u : q \in WholeReqParts,
                        r \in WholeInputParts(<<"Required Inputs">>),
                        o \in WholeInputParts(<<"Optional Inputs">>),
                        u \in WholeOutputParts}

\* the heads of READMEs: some empty lines, then titles and other lines
MaxTitleLines == 2
TitleLines ==
    {Line("h1", <<"terraform", "-", "azurerm", "-", "avm", "-", "res", "-", "kv">>, <<>>),
     Line("h1", <<"terraform", "-", "azurerm", "-", "kv", " ", "#">>, <<>>),
     Line("h1", <<"terraform", "-", "azurerm">>, <<>>),
     Line("h1", <<"terraform", "-", "azurerm", "-", "avm", "-", "key", " ", "vault">>, <<>>),
     Line("h1", <<"terraform", "-", "azurerm", "-">>, <<>>),
     Line("h1", <<"Introduction">>, <<>>),
     Line("h2", <<"Outputs">>, <<>>),
     Line("text", <<"prose">>, <<>>)}
EmptyLines(n) == [i \in 1..n |-> Line("blank", <<>>, <<>>)]
TitleDocs ==
    {EmptyLines(n) \o ls : n \in {0, FirstLines - 1, FirstLines},
                           ls \in SeqsUpTo(TitleLines, MaxTitleLines)}

\* sections whose entries have a display name "[]", "[\]" or "[a\_b]"
DisplayNames == {<<>>, <<"\\">>, <<"a", "\\", "_", "b">>}
NameEntrySet(kind) ==
    {<<Line(kind, n, <<"a_b">>), Line("desc", <<"The value.">>, <<>>)>> : n \in DisplayNames}
NameDocs ==
    {<<Line("h2", <<"Required Inputs">>, <<>>)>> \o Concat(es) :
        es \in SeqsUpTo(NameEntrySet("input"), MaxEntries)}
    \cup {<<Line("h2", <<"Outputs">>, <<>>)>> \o Concat(es) :
             es \in SeqsUpTo(NameEntrySet("output"), MaxEntries)}

\* entries with a ```hcl block: after a scalar type or after a bare "Type:",
\* with a body, with a blank body, and followed by a second block
HclBodies ==
    {<<Line("desc", <<"The rules.">>, <<>>), Line("type", <<"string">>, <<>>),
       Line("hcl", <<" ", "map(string)", " ">>, <<>>)>>,
     <<Line("desc", <<"The rules.">>, <<>>), Line("type", <<"string">>, <<>>),
       Line("hcl", <<" ">>, <<>>)>>,
     <<Line("desc", <<"The rules.">>, <<>>), Line("type", <<>>, <<>>),
       Line("hcl", <<" ">>, <<>>), Line("default", <<"null">>, <<>>)>>,
     <<Line("desc", <<"The rules.">>, <<>>), Line("type", <<>>, <<>>),
       Line("hcl", <<"map(object({}))">>, <<>>), Line("default", <<>>, <<>>),
       Line("hcl", <<"{}">>, <<>>)>>}
HclDocs ==
    {<<Line("h2", <<"Required Inputs">>, <<>>),
       Line("input", <<"rules">>, <<"rules">>)>> \o b : b \in HclBodies}

ReadmeContents ==
    SectionDocs \cup InputDocs \cup OutputDocs \cup ReqDocs \cup WholeDocs \cup TitleDocs
        \cup NameDocs \cup HclDocs

\* a ReadmeParser after __init__ and read_file; the two tools are not started
InitReadme ==
    /\ content \in ReadmeContents
    /\ parser_fields = NoFields
    /\ calls = <<>>
    /\ ret_text = <<>>
    /\ ret_entry = NoEntry
    /\ ret_dict = <<>>
    /\ ret_parsed = NoData
    /\ ret_requirements = NoRequirements
    /\ ret_name = <<>>
    \* avm_module_finder.py
    /\ fpc = "download"
    /\ no_cleanup = FALSE
    /\ deploymentCsv = NoFile
    /\ remoteCsv = NoFile
    /\ workingCsv = NoFile
    /\ temp_files = <<>>
    /\ deployment_data = <<>>
    /\ matched_modules = <<>>
    /\ columns = <<>>
    /\ outputCsv = OldOutput
    /\ exitStatus = -1
    /\ failedStep = "none"
    /\ interrupted = FALSE
    \* avm_module_parameter_parser.py
    /\ ppc = "start"
    /\ argv1 = NoArg
    /\ doc = [content |-> <<>>, modules |-> <<>>, localSubs |-> <<>>]
    /\ localReadme = "none"
    /\ fetcher = NoFetcher
    /\ fetched_source = <<>>
    /\ fetchLog = <<>>
    /\ fetchResult = NoResult
    /\ readme_file = <<>>
    /\ out_name = <<>>
    /\ submodule_infos = <<>>
    /\ subIndex = 1
    /\ subFetchOk = <<>>
    /\ submodules_data = <<>>
    /\ parser_submodules = <<>>
    /\ parsed_data = NoData
    /\ jsonFile = NoJson
    /\ reported = "none"
    /\ pExit = -1
    /\ pFailure = "none"
    /\ stages = <<>>

\* variant: a section is handed out once; a later call finds nothing
ExtractSection_once ==
    /\ Len(calls) < MaxCalls
    /\ \A i \in DOMAIN calls : calls[i].op = "extract_section"
    /\ UNCHANGED <<fvars, pvars>>
    /\ \E section_name \in SectionNames :
          LET text == IF calls = <<>> THEN extract_section(content, section_name) ELSE <<>>
          IN /\ calls' = Append(calls, [op |-> "extract_section", arg |-> section_name,
                                        flag |-> FALSE, ret |-> text])
             /\ ret_text' = text
    /\ UNCHANGED <<content, parser_fields, ret_entry, ret_dict, ret_parsed,
                   ret_requirements, ret_name>>

\* parser.extract_section(section_name)
ExtractSection ==
    /\ Len(calls) < MaxCalls
    /\ \A i \in DOMAIN calls : calls[i].op = "extract_section"
    /\ UNCHANGED <<fvars, pvars>>
    /\ \E section_name \in SectionNames :
          LET text == extract_section(content, section_name)
          IN /\ calls' = Append(calls, [op |-> "extract_section", arg |-> section_name,
                                        flag |-> FALSE, ret |-> text])
             /\ ret_text' = text
    /\ UNCHANGED <<content, parser_fields, ret_entry, ret_dict, ret_parsed,
                   ret_requirements, ret_name>>

\* parser.parse_input_entry(entry) on an entry of the "Required Inputs" section
ParseInputEntry ==
    /\ calls = <<>>
    /\ UNCHANGED <<fvars, pvars>>
    /\ LET section_text == extract_section(content, <<"Required Inputs">>)
       IN \E i \in DOMAIN section_text :
             /\ section_text[i].k \in {"input", "input_cut"}
             /\ LET entry == EntryAt(section_text, i, {"input", "input_cut"})
                IN /\ calls' = <<[op |-> "parse_input_entry", arg |-> entry, flag |-> FALSE]>>
                   /\ ret_entry' = parse_input_entry(entry)
    /\ UNCHANGED <<content, parser_fields, ret_text, ret_dict, ret_parsed, ret_requirements, ret_name>>

\* parser.parse_output_entry(entry) on an entry of the "Outputs" section
ParseOutputEntry ==
    /\ calls = <<>>
    /\ UNCHANGED <<fvars, pvars>>
    /\ LET section_text == extract_section(content, <<"Outputs">>)
       IN \E i \in DOMAIN section_text :
             /\ section_text[i].k \in {"output", "output_cut"}
             /\ LET entry == EntryAt(section_text, i, {"output", "output_cut"})
                IN /\ calls' = <<[op |-> "parse_output_entry", arg |-> entry, flag |-> FALSE]>>
                   /\ ret_entry' = parse_output_entry(entry)
    /\ UNCHANGED <<content, parser_fields, ret_text, ret_dict, ret_parsed, ret_requirements, ret_name>>

\* parser.parse_inputs_section(section_text, is_required)
ParseInputsSection ==
    /\ calls = <<>>
    /\ UNCHANGED <<fvars, pvars>>
    /\ \E section_name \in InputSectionNames, is_required \in BOOLEAN :
          LET section_text == extract_section(content, section_name)
          IN /\ calls' = <<[op |-> "parse_inputs_section", arg |-> section_text,
                            flag |-> is_required]>>
             /\ ret_dict' = parse_inputs_section(section_text, is_required)
    /\ UNCHANGED <<content, parser_fields, ret_text, ret_entry, ret_parsed, ret_requirements, ret_name>>

\* parser.parse_outputs_section(section_text)
ParseOutputsSection ==
    /\ calls = <<>>
    /\ UNCHANGED <<fvars, pvars>>
    /\ LET section_text == extract_section(content, <<"Outputs">>)
       IN /\ calls' = <<[op |-> "parse_outputs_section", arg |-> section_text,
                         flag |-> FALSE]>>
          /\ ret_dict' = parse_outputs_section(section_text)
    /\ UNCHANGED <<content, parser_fields, ret_text, ret_entry, ret_parsed, ret_requirements, ret_name>>

\* parser.parse_requirements_section(section)
ParseRequirementsSection ==
    /\ calls = <<>>
    /\ UNCHANGED <<fvars, pvars>>
    /\ LET section == extract_section(content, <<"Requirements">>)
       IN /\ calls' = <<[op |-> "parse_requirements_section", arg |-> section,
                         flag |-> FALSE]>>
          /\ ret_requirements' = parse_requirements_section(section)
    /\ UNCHANGED <<content, parser_fields, ret_text, ret_entry, ret_dict, ret_parsed, ret_name>>

\* parser.parse() of a parser made for the path README.md, with no
\* submodule READMEs next to it
ParseReadme ==
    /\ calls = <<>>
    /\ UNCHANGED <<fvars, pvars>>
    /\ calls' = <<[op |-> "parse", arg |-> content, flag |-> FALSE]>>
    /\ parser_fields' =
          [required_inputs |->
               parse_inputs_section(extract_section(content, <<"Required Inputs">>), TRUE),
           optional_inputs |->
               parse_inputs_section(extract_section(content, <<"Optional Inputs">>), FALSE),
           outputs |-> parse_outputs_section(extract_section(content, <<"Outputs">>))]
    /\ ret_parsed' = parse(ParserModuleName(<<"README", ".md">>),
                           [content |-> content, localSubs |-> <<>>], <<>>)
    /\ UNCHANGED <<content, ret_text, ret_entry, ret_dict, ret_requirements, ret_name>>

\* main: the module name of the output path, for the file README.md read
\* into temp_parser.content
DeriveTitleName ==
    /\ calls = <<>>
    /\ UNCHANGED <<fvars, pvars>>
    /\ calls' = <<[op |-> "derive_name", arg |-> content, flag |-> FALSE]>>
    /\ ret_name' = TitleModuleName(content, <<"README", ".md">>)
    /\ UNCHANGED <<content, parser_fields, ret_text, ret_entry, ret_dict, ret_parsed,
                   ret_requirements>>

NextReadme ==
    \/ ExtractSection
    \/ ParseInputEntry \/ ParseOutputEntry
    \/ ParseInputsSection \/ ParseOutputsSection
    \/ ParseRequirementsSection \/ ParseReadme
    \/ DeriveTitleName

(***************************************************************************)
(* The two tools are separate programs: each specification runs one of     *)
(* them and leaves the other one not started.                              *)
(***************************************************************************)
SpecFinder == InitFinder /\ [][NextFinder]_vars

SpecParser == InitParser /\ [][NextParser]_vars

SpecReadme == InitReadme /\ [][NextReadme]_vars

(***************************************************************************)
(* Properties of the Resource Matcher                                      *)
(***************************************************************************)
LoadDone == fpc \in {"match", "write", "cleanup", "done"}
MatchDone == fpc \in {"write", "cleanup", "done"}
WriteDone == fpc \in {"cleanup", "done"}

\* field c of reference row i / deployment row i, read off the file text
RefField(i, c) == remoteCsv.rows[i][IndexOf(remoteCsv.header, c)]
DepField(i, c) == deploymentCsv.rows[i][IndexOf(deploymentCsv.header, c)]
RefSix(i) == [c \in Range(OUTPUT_COLUMNS) |-> RefField(i, c)]

InIndex(ns, rt) == \E e \in Range(deployment_data) : e.key = ns /\ rt \in Range(e.val)

\* C1: a reference row is in Matched Modules iff its (namespace, type) pair is
\* in the Deployment Index and its status is exactly "Available"; every
\* element of Matched Modules has status "Available" at every point of the run
C1_EmittedIffIndexedAndAvailable ==
    /\ \A j \in DOMAIN matched_modules : matched_modules[j]["ModuleStatus"] = "Available"
    /\ MatchDone =>
         \A i \in DOMAIN remoteCsv.rows :
             (RefSix(i) \in Range(matched_modules))
                 <=> /\ InIndex(RefField(i, "ProviderNamespace"), RefField(i, "ResourceType"))
                     /\ RefField(i, "ModuleStatus") = "Available"

\* a run where one indexed row is emitted and an indexed row with status
\* "available" is not
C1_Witness ==
    /\ MatchDone
    /\ \E i, k \in DOMAIN remoteCsv.rows :
          /\ RefSix(i) \in Range(matched_modules)
          /\ RefField(k, "ModuleStatus") = "available"
          /\ InIndex(RefField(k, "ProviderNamespace"), RefField(k, "ResourceType"))
          /\ RefSix(k) \notin Range(matched_modules)

\* the (namespace, type) pairs of the deployment CSV, as a set
DepPairSet ==
    {<<DepField(i, "ProviderNamespace"), DepField(i, "ResourceType")>> :
        i \in {n \in DOMAIN deploymentCsv.rows :
                  /\ DepField(n, "ProviderNamespace") # ""
                  /\ DepField(n, "ResourceType") # ""}}

RefRowShouldMatch(i) ==
    /\ <<RefField(i, "ProviderNamespace"), RefField(i, "ResourceType")>> \in DepPairSet
    /\ RefField(i, "ModuleStatus") = "Available"

\* the positions of the matching reference rows, in ascending order
RECURSIVE MatchingPositions(_)
MatchingPositions(n) ==
    IF n = 0 THEN <<>>
    ELSE IF RefRowShouldMatch(n) THEN Append(MatchingPositions(n - 1), n)
    ELSE MatchingPositions(n - 1)

\* C2: Matched Modules is exactly the subsequence of matching reference rows,
\* in reference-CSV order, whatever the order and multiplicity of the
\* deployment rows; a matching row occurring k times is emitted k times
C2_MatchedIsSubsequenceInRefOrder ==
    MatchDone =>
        LET pos == MatchingPositions(Len(remoteCsv.rows))
        IN /\ Len(matched_modules) = Len(pos)
           /\ \A k \in DOMAIN pos : matched_modules[k] = RefSix(pos[k])

\* a matching row that occurs twice is emitted twice, from an index that
\* lists its resource type twice
C2_Witness ==
    /\ MatchDone
    /\ Len(remoteCsv.rows) = 2
    /\ remoteCsv.rows[1] = remoteCsv.rows[2]
    /\ Len(matched_modules) = 2
    /\ \E e \in Range(deployment_data) : Len(e.val) = 2 /\ e.val[1] = e.val[2]

\* two different matching rows emitted in file order
C2_WitnessOrder ==
    /\ MatchDone
    /\ Len(matched_modules) = 2
    /\ matched_modules[1] # matched_modules[2]
    /\ matched_modules[1] = RefSix(1)

\* C3: every deployment row with both fields non-empty is in the index
\* (namespace a key, type in its list, duplicates kept in file order); rows
\* with an empty field add nothing and do not abort the load
C3_IndexHoldsExactlyTheCompleteRows ==
    /\ LoadDone =>
         /\ \A i \in DOMAIN deploymentCsv.rows :
               (DepField(i, "ProviderNamespace") # "" /\ DepField(i, "ResourceType") # "")
                   => InIndex(DepField(i, "ProviderNamespace"), DepField(i, "ResourceType"))
         /\ \A a, b \in DOMAIN deployment_data :
               deployment_data[a].key = deployment_data[b].key => a = b
         /\ \A a \in DOMAIN deployment_data :
               LET k == deployment_data[a].key
                   from == SelectSeq([i \in DOMAIN deploymentCsv.rows |->
                                         <<DepField(i, "ProviderNamespace"),
                                           DepField(i, "ResourceType")>>],
                                     LAMBDA p : p[1] = k /\ p[2] # "")
               IN /\ k # ""
                  /\ Len(from) > 0
                  /\ deployment_data[a].val = [n \in DOMAIN from |-> from[n][2]]
    /\ (Exited /\ fpc = "load" /\ failedStep = "load") =>
          \/ deploymentCsv = NoFile
          \/ "ProviderNamespace" \notin Range(deploymentCsv.header)
          \/ "ResourceType" \notin Range(deploymentCsv.header)

\* a load that kept a duplicate resource type and skipped a row with an
\* empty field
C3_Witness ==
    /\ LoadDone
    /\ \E e \in Range(deployment_data) : Len(e.val) = 2 /\ e.val[1] = e.val[2]

\* a load that went on after a row with an empty field
C3_WitnessSkip ==
    /\ LoadDone
    /\ Len(deploymentCsv.rows) = 2
    /\ DepField(1, "ResourceType") = ""
    /\ Len(deployment_data) = 1

\* C4: the output CSV has the six fixed columns in the fixed order and one
\* data row per Matched Module, whatever the reference CSV's columns
C4_OutputHasFixedColumnsAndOneRowPerMatch ==
    WriteDone =>
        /\ outputCsv.header = <<"ProviderNamespace", "ResourceType", "ModuleName",
                                "ModuleStatus", "RepoURL", "PublicRegistryReference">>
        /\ Len(outputCsv.rows) = Len(matched_modules)
        /\ \A i \in DOMAIN outputCsv.rows :
              /\ Len(outputCsv.rows[i]) = 6
              /\ \A j \in 1..6 : outputCsv.rows[i][j] = matched_modules[i][outputCsv.header[j]]

\* an output written from a reference CSV with other column order and an
\* extra column
C4_Witness ==
    /\ WriteDone
    /\ remoteCsv.header[1] = "Extra"
    /\ Len(outputCsv.rows) = 2

DeploymentCsvBad ==
    \/ deploymentCsv = NoFile
    \/ "ProviderNamespace" \notin Range(deploymentCsv.header)
    \/ "ResourceType" \notin Range(deploymentCsv.header)
ReferenceCsvBad == \E c \in Range(OUTPUT_COLUMNS) : c \notin Range(remoteCsv.header)

\* C5: exit status 0 exactly when download, load, match and write all
\* succeeded (and no interrupt came), 1 on any fatal error, 130 on interrupt
C5_ExitStatus ==
    /\ DeploymentCsvBad => ~LoadDone
    /\ ReferenceCsvBad => ~MatchDone
    /\ Exited =>
         /\ exitStatus \in {0, 1, 130}
         /\ interrupted <=> exitStatus = 130
         /\ failedStep # "none" <=> exitStatus = 1
         /\ exitStatus = 0 <=> (fpc = "done" /\ ~interrupted)
         /\ exitStatus = 0 =>
               /\ temp_files # <<>>
               /\ ~DeploymentCsvBad /\ ~ReferenceCsvBad
               /\ outputCsv.header = OUTPUT_COLUMNS
               /\ Len(outputCsv.rows) = Len(matched_modules)
         /\ (~interrupted /\ fpc = "load") => (DeploymentCsvBad /\ exitStatus = 1)
         /\ (~interrupted /\ fpc = "match") => (ReferenceCsvBad /\ exitStatus = 1)
         /\ (~interrupted /\ fpc \in {"download", "write"}) => exitStatus = 1

\* a run that ended with status 1 on a missing deployment file
C5_Witness == Exited /\ exitStatus = 1 /\ fpc = "load" /\ deploymentCsv = NoFile

\* a run interrupted after the output was written
C5_WitnessInterrupt == Exited /\ exitStatus = 130 /\ fpc = "cleanup"

\* C6: without --no-cleanup the downloaded reference CSV is gone when the
\* process exits with status 0 or 1; with --no-cleanup it is kept
C6_TempFileRemovedOnExit ==
    (Exited /\ temp_files # <<>> /\ exitStatus \in {0, 1}) =>
        IF no_cleanup THEN workingCsv # NoFile ELSE workingCsv = NoFile

(***************************************************************************)
(* Properties of the README Extractor                                      *)
(***************************************************************************)
LaterStages == {"derive_name", "read_file", "fetch_submodule_readme",
                "parse_readme_directly", "parse", "to_json"}

\* C7: a failed run (malformed identifier, source lookup, repository
\* extraction, top-level fetch, no local README, exception in main) ends
\* with a non-zero exit status
C7_FailedRunExitsNonZero ==
    (PExited /\ pFailure \in {"identifier", "source", "repo", "fetch", "no_readme"})
        => pExit # 0

\* C8: in registry mode a failed source lookup, repository extraction or
\* top-level fetch aborts the run: no later stage runs, nothing is parsed,
\* no submodule is fetched and no JSON file is written
C8_RegistryFailureAbortsRun ==
    /\ pFailure \in {"source", "repo", "fetch"} =>
          /\ PExited
          /\ RegistryMode
          /\ Range(stages) \cap LaterStages = {}
          /\ subFetchOk = <<>> /\ submodules_data = <<>>
          /\ parsed_data = NoData
          /\ jsonFile = NoJson
    /\ (RegistryMode /\ Range(stages) \cap LaterStages # {}) =>
          /\ fetched_source # <<>>
          /\ fetcher.github_repo # <<>>
          /\ \E i \in DOMAIN stages : stages[i] = "fetch_readme_content"
          /\ fetcher.repo_branch \in {"main", "master"}

\* a run aborted after both branch requests for the top-level README failed
C8_Witness ==
    /\ PExited /\ pFailure = "fetch"
    /\ Len(fetchLog) = 2
    /\ stages = <<"construct", "fetch_module_source", "extract_github_repo",
                  "fetch_readme_content">>

FailedSubmodules == {i \in DOMAIN subFetchOk : ~subFetchOk[i]}
FetchedNames == {submodule_infos[i].name : i \in DOMAIN subFetchOk \ FailedSubmodules}
NamesDistinct ==
    \A a, b \in DOMAIN submodule_infos :
        submodule_infos[a].name = submodule_infos[b].name => a = b

LatestFetchPath ==
    IF subFetchOk = <<>> THEN <<"README.md">>
    ELSE LET src == submodule_infos[Len(subFetchOk)].path
         IN src \o <<"/", "README.md">>
LatestUrl(branch) ==
    <<"https://raw.githubusercontent.com", "/">> \o fetcher.github_repo
        \o <<"/", branch, "/">> \o LatestFetchPath

\* C10: one fetch asks for the "main" URL first and for the "master" URL
\* only if "main" did not return 200; the first 200 is the result; no URL is
\* asked for twice; there is no content when neither returns 200
C10_MainThenMasterNoRetry ==
    fetchLog # <<>> =>
        /\ Len(fetchLog) \in {1, 2}
        /\ fetchLog[1].url = LatestUrl("main")
        /\ Len(fetchLog) = 1 <=> fetchLog[1].status = "200"
        /\ Len(fetchLog) = 2 => /\ fetchLog[2].url = LatestUrl("master")
                                /\ fetchLog[1].url # fetchLog[2].url
        /\ fetchResult.ok <=> fetchLog[Len(fetchLog)].status = "200"
        /\ fetchResult.ok => fetchResult.text = fetchLog[Len(fetchLog)].url
        /\ ~fetchResult.ok => fetchResult.text = <<>>

\* a fetch whose "main" request raised and whose "master" request returned 200
C10_Witness ==
    /\ Len(fetchLog) = 2
    /\ fetchLog[1].status = "RequestException"
    /\ fetchLog[2].status = "200"
    /\ fetchResult.ok

\* the URL a submodule fetch would ask for on the branch recorded before it
RecordedBranchUrl ==
    RawUrl(fetcher.github_repo, fetcher.repo_branch,
           ReadmePathOf(SubmodulePath(submodule_infos[subIndex].path)))

\* C11: once a fetch has succeeded on a branch, every later submodule fetch
\* of the run asks only for URLs on that branch and never probes the other
C11_LaterFetchesUseRecordedBranch ==
    [][(/\ fetcher.repo_branch \in {"main", "master"}
        /\ Len(subFetchOk') = Len(subFetchOk) + 1)
          => \A i \in DOMAIN fetchLog' : fetchLog'[i].url = RecordedBranchUrl]_vars

\* the positions of "/" in the identifier
SlashPositions == {i \in DOMAIN argv1 : argv1[i] = "/"}
FirstSlash == CHOOSE i \in SlashPositions : \A j \in SlashPositions : i <= j
LastSlash == CHOOSE i \in SlashPositions : \A j \in SlashPositions : i >= j

\* C12: an identifier that does not split on "/" into exactly three parts
\* fails at construction with a ValueError, before any request is made; with
\* three parts they are namespace, name and provider in that order
C12_IdentifierHasThreeParts ==
    (RegistryMode /\ stages # <<>>) =>
        IF Cardinality(SlashPositions) # 2
        THEN /\ stages = <<"construct">>
             /\ PExited /\ pFailure = "identifier"
             /\ fetcher = NoFetcher
             /\ fetched_source = <<>> /\ fetchLog = <<>>
        ELSE /\ pFailure # "identifier"
             /\ fetcher.namespace = SubSeq(argv1, 1, FirstSlash - 1)
             /\ fetcher.name = SubSeq(argv1, FirstSlash + 1, LastSlash - 1)
             /\ fetcher.provider = SubSeq(argv1, LastSlash + 1, Len(argv1))

\* a run that stopped at construction on an identifier with four parts
C12_Witness ==
    /\ argv1 = LongId /\ stages = <<"construct">>
    /\ PExited /\ pFailure = "identifier"

\* a fetcher constructed from a three-part identifier
C12_WitnessGood ==
    /\ argv1 = GoodId /\ stages = <<"construct">>
    /\ fetcher.name = <<"avm", "-", "res">> /\ fetcher.provider = <<"azurerm">>

(***************************************************************************)
(* Properties of ReadmeParser                                              *)
(***************************************************************************)
LastCall == calls[Len(calls)]
Called(op) == calls # <<>> /\ LastCall.op = op

\* the lines that are exactly "## <name>"
HeadingLines(name) == {i \in DOMAIN content : content[i] = Line("h2", name, <<>>)}
\* the lines after position i that start with "## "
NextHeadings(i) == {j \in DOMAIN content : j > i /\ content[j].k = "h2"}
\* the lines from position lo to position hi without the empty lines at both ends
RECURSIVE Trimmed(_, _)
Trimmed(lo, hi) ==
    IF lo > hi THEN <<>>
    ELSE IF content[lo].k = "blank" THEN Trimmed(lo + 1, hi)
    ELSE IF content[hi].k = "blank" THEN Trimmed(lo, hi - 1)
    ELSE SubSeq(content, lo, hi)

\* C13: with a heading line "## <name>" in the document the result is the
\* text from that line up to the next line starting with "## " or the end,
\* trimmed; with no such heading line the result is empty
C13_SectionIsTextUnderItsHeading ==
    Called("extract_section") =>
        LET name == LastCall.arg
        IN IF HeadingLines(name) = {}
           THEN ret_text = <<>>
           ELSE LET i == Min(HeadingLines(name))
                    e == IF NextHeadings(i) = {} THEN Len(content)
                         ELSE Min(NextHeadings(i)) - 1
                IN ret_text = Trimmed(i + 1, e)

\* a display name without its backslashes; a text without its empty lines
Clean(label) == SelectSeq(label, LAMBDA c : c # "\\")
NonBlank(t) == SelectSeq(t, LAMBDA l : l.k # "blank")
\* the entry has a backtick-quoted value after "Default:"
DefaultLines(entry) == {j \in DOMAIN entry : entry[j].k = "default" /\ entry[j].a # <<>>}

\* C14: an input entry made of the name anchor, a Description and a scalar
\* Type parses to name, description and type with no "default" key; the
\* "default" key is there exactly when a backtick-quoted value follows
\* "Default:"; parse_inputs_section sets "required" to the flag it was given
C14_InputEntryRecord ==
    /\ Called("parse_input_entry") =>
          LET entry == LastCall.arg
              nb == NonBlank(entry)
          IN /\ (/\ Len(nb) = 3
                 /\ nb[1].k = "input" /\ nb[2].k = "desc"
                 /\ nb[3].k = "type" /\ nb[3].a # <<>>)
                   => ret_entry = [name |-> Clean(nb[1].a),
                                   description |-> <<Line("text", nb[2].a, <<>>)>>,
                                   type |-> nb[3].a,
                                   default |-> <<>>,
                                   required |-> FALSE,
                                   keys |-> {"name", "description", "type"}]
             /\ entry[1].k = "input" =>
                   /\ "default" \in ret_entry.keys <=> DefaultLines(entry) # {}
                   /\ "default" \in ret_entry.keys =>
                         ret_entry.default = entry[Min(DefaultLines(entry))].a
                   /\ "required" \notin ret_entry.keys
    /\ Called("parse_inputs_section") =>
          \A i \in DOMAIN ret_dict :
              /\ "required" \in ret_dict[i].val.keys
              /\ ret_dict[i].val.required = LastCall.flag
              /\ "default" \in ret_dict[i].val.keys =>
                    \E j \in DefaultLines(LastCall.arg) :
                        LastCall.arg[j].a = ret_dict[i].val.default

\* the entry "location" with "The region." and `string` parsed, no default
C14_Witness ==
    /\ Called("parse_input_entry")
    /\ NonBlank(LastCall.arg) = <<Line("input", <<"location">>, <<"location">>),
                                   Line("desc", <<"The region.">>, <<>>),
                                   Line("type", <<"string">>, <<>>)>>
    /\ ret_entry.name = <<"location">> /\ ret_entry.type = <<"string">>
    /\ "default" \notin ret_entry.keys

\* a section parsed as optional and one parsed as required, with a default
C14_WitnessRequired ==
    /\ Called("parse_inputs_section") /\ LastCall.flag
    /\ \E i \in DOMAIN ret_dict : /\ ret_dict[i].val.required
                                   /\ "default" \in ret_dict[i].val.keys

\* the names of the entries of a text that have the whole name pattern
NamedEntries(text, kind) == {Clean(text[i].a) : i \in {j \in DOMAIN text : text[j].k = kind}}
\* the keys of the mapping are those names, each once, each entry under its name
HoldsExactly(d, names) ==
    /\ DictKeys(d) = names
    /\ Len(d) = Cardinality(names)
    /\ \A i \in DOMAIN d : d[i].val.name = d[i].key

\* C15: an entry without the name pattern parses to the empty result and
\* adds no key to the mapping; the other entries of the section are parsed
C15_EntryWithoutNameIsDropped ==
    /\ (Called("parse_input_entry") /\ NamedEntries(LastCall.arg, "input") = {})
          => ret_entry = NoEntry
    /\ (Called("parse_output_entry") /\ NamedEntries(LastCall.arg, "output") = {})
          => ret_entry = NoEntry
    /\ Called("parse_inputs_section")
          => HoldsExactly(ret_dict, NamedEntries(LastCall.arg, "input"))
    /\ Called("parse_outputs_section")
          => HoldsExactly(ret_dict, NamedEntries(LastCall.arg, "output"))

\* a section whose first entry lacks the pattern and whose second one is stored
C15_Witness ==
    /\ Called("parse_inputs_section")
    /\ LastCall.arg # <<>> /\ LastCall.arg[1].k = "input_cut"
    /\ Len(ret_dict) = 1

\* an entry without the pattern parsed on its own
C15_WitnessEntry ==
    /\ Called("parse_output_entry") /\ LastCall.arg[1].k = "output_cut"
    /\ Len(LastCall.arg) > 1 /\ ret_entry = NoEntry

\* the names of the well-formed entries of a section of the README
SectionEntryNames(section_name) ==
    NamedEntries(extract_section(content, section_name), "input")

\* C16: the inputs of parse() are the entries of the Required Inputs and of
\* the Optional Inputs sections under their names, each name once; a name of
\* both sections holds the optional entry (so "required" is false), and every
\* other entry has "required" true iff it is of the Required Inputs section
C16_InputsAreRequiredThenOptional ==
    Called("parse") =>
        LET all_inputs == ret_parsed.inputs
            required_names == SectionEntryNames(<<"Required Inputs">>)
            optional_names == SectionEntryNames(<<"Optional Inputs">>)
        IN /\ HoldsExactly(all_inputs, required_names \cup optional_names)
           /\ \A n \in optional_names :
                 /\ DictGet(all_inputs, n) = DictGet(parser_fields.optional_inputs, n)
                 /\ ~DictGet(all_inputs, n).required
           /\ \A n \in required_names \ optional_names :
                 /\ DictGet(all_inputs, n) = DictGet(parser_fields.required_inputs, n)
                 /\ DictGet(all_inputs, n).required

\* a name of both sections with two different entries, next to a name of the
\* Required Inputs section only
C16_Witness ==
    /\ Called("parse")
    /\ \E n \in SectionEntryNames(<<"Required Inputs">>)
                   \cap SectionEntryNames(<<"Optional Inputs">>) :
          /\ DictGet(parser_fields.required_inputs, n).description
                # DictGet(parser_fields.optional_inputs, n).description
          /\ ~DictGet(ret_parsed.inputs, n).required
    /\ \E n \in SectionEntryNames(<<"Required Inputs">>)
                   \ SectionEntryNames(<<"Optional Inputs">>) :
          DictGet(ret_parsed.inputs, n).required

Max(S) == CHOOSE x \in S : \A y \in S : x >= y

\* a line with a requirement_<name> anchor that ends with a version in
\* parentheses
HasVersion(l) == l.k = "req" /\ l.b # <<>>
\* the lines of the section with a version, all of them or those of one name
VersionLines(section) == {i \in DOMAIN section : HasVersion(section[i])}
VersionLinesOf(section, name) == {i \in VersionLines(section) : section[i].a = name}
ProviderSource(name) ==
    IF name = <<"modtm">> THEN <<"azure", "/", "modtm">> ELSE <<"hashicorp", "/">> \o name

\* C17: the result of parse_requirements_section holds what the lines with a
\* requirement anchor and a trailing version in parentheses say, and nothing
\* else: required_version is the version of the terraform line, every other
\* name is a provider with source hashicorp/<name> (azure/modtm for modtm)
\* and that version, and a line without anchor and version changes nothing
C17_RequirementLinesRecorded ==
    Called("parse_requirements_section") =>
        LET section == LastCall.arg
            terraform_lines == VersionLinesOf(section, <<"terraform">>)
            provider_names == {section[i].a : i \in VersionLines(section) \ terraform_lines}
            providers == ret_requirements.required_providers
        IN /\ ("required_version" \in ret_requirements.keys) = (terraform_lines # {})
           /\ terraform_lines # {}
                 => ret_requirements.required_version
                       = StripChunks(section[Max(terraform_lines)].b)
           /\ DictKeys(providers) = provider_names
           /\ Len(providers) = Cardinality(provider_names)
           /\ ("required_providers" \in ret_requirements.keys) = (provider_names # {})
           /\ \A n \in provider_names :
                 DictGet(providers, n)
                    = [source |-> ProviderSource(n),
                       version |-> StripChunks(section[Max(VersionLinesOf(section, n))].b)]

\* what the lines of a Requirements section leave to record: a provider, or
\* a version of terraform that is not blank (a later terraform line replaces
\* an earlier one)
RequirementFound(section) ==
    LET anchored == {i \in DOMAIN section : section[i].k = "req"}
        terraform_lines == {i \in anchored : section[i].a = <<"terraform">>}
    IN \/ anchored \ terraform_lines # {}
       \/ /\ terraform_lines # {}
          /\ StripChunks(TrailingParenthesis(section[Max(terraform_lines)])) # <<>>

C18_WitnessAbsent ==
    /\ Called("parse")
    /\ "module_requirements" \notin ret_parsed.keys
    /\ extract_section(content, <<"Requirements">>) # <<>>

\* a README with inputs and no Requirements section
C18_WitnessNoSection ==
    /\ Called("parse")
    /\ "module_requirements" \notin ret_parsed.keys
    /\ \A i \in DOMAIN content : content[i].a # <<"Requirements">>
    /\ ret_parsed.inputs # <<>>

\* C19: a JSON file that was written is named by the module name derived
\* for the run, and its top-level key and the "name" under it are that name
C19_JsonNameIsOutputName ==
    jsonFile # NoJson =>
        /\ jsonFile.name = out_name
        /\ jsonFile.data.name = out_name
        /\ out_name = IF "_README.md" \in Range(readme_file)
                      THEN Replace(readme_file, "_README.md", <<>>)
                      ELSE TitleModuleName(doc.content, readme_file)

\* the lines main looks at, and the titles among them
HeadLines == {i \in DOMAIN content : i <= FirstLines}
TitleAt(i) == StripTitle(content[i].a)
IsTitle(i) == content[i].k = "h1"
\* a title with "terraform" and a hyphen in it
Qualifies(i) ==
    IsTitle(i) /\ "terraform" \in Range(TitleAt(i)) /\ "-" \in Range(TitleAt(i))
\* the last two hyphen-delimited segments of a title of more than three, or
\* else its last one
TrailingSegments(title) ==
    LET parts == Split(title, "-")
        n == Len(parts)
    IN IF n > 3 THEN parts[n - 1] \o <<"-">> \o parts[n] ELSE parts[n]
Underscored(name) ==
    [i \in DOMAIN name |-> IF name[i] \in {"-", " "} THEN "_" ELSE name[i]]

C20_WitnessLaterTitle ==
    /\ Called("derive_name")
    /\ \E i, j \in HeadLines :
          /\ i < j /\ IsTitle(i) /\ ~Qualifies(i) /\ Qualifies(j)
          /\ Len(Split(TitleAt(j), "-")) > 3
    /\ ret_name = <<"readme">>

\* a title of two segments; a title on the eleventh line
C20_WitnessTwoSegments ==
    /\ Called("derive_name")
    /\ Len(content) = 1 /\ Qualifies(1) /\ Len(Split(TitleAt(1), "-")) = 2
    /\ ret_name = <<"readme">>

C20_WitnessEleventhLine ==
    /\ Called("derive_name")
    /\ Len(content) > FirstLines /\ Qualifies(FirstLines + 1)
    /\ \A i \in HeadLines : ~IsTitle(i)
    /\ ret_name = <<"readme">>

\* C21 as stated: a run without a module argument discovers no submodule,
\* makes no request, and its result has no submodules key
C21_LocalModeHasNoSubmodules ==
    ~RegistryMode =>
        /\ fetchLog = <<>> /\ submodule_infos = <<>> /\ submodules_data = <<>>
        /\ "submodules" \notin parsed_data.keys
        /\ parsed_data.submodules = <<>>

\* C21: a run without a module argument makes no request and does not search
\* the "Modules" section, but parse() reads the "Submodules" section and the
\* submodule READMEs found on disk next to the README: the result has a
\* submodules key iff one was found, with one entry per name found.  In
\* registry mode the submodules to fetch are the entries of the "Modules"
\* section, each with its source path without a leading "./"
C21_LocalSubmodulesOnlyFromDisk ==
    /\ ~RegistryMode =>
          /\ fetcher = NoFetcher /\ fetchLog = <<>>
          /\ submodule_infos = <<>> /\ submodules_data = <<>> /\ subFetchOk = <<>>
          /\ parsed_data # NoData =>
                /\ DictKeys(parsed_data.submodules) = Range(doc.localSubs)
                /\ ("submodules" \in parsed_data.keys) = (doc.localSubs # <<>>)
                /\ \A i \in DOMAIN parsed_data.submodules :
                      parsed_data.submodules[i].val.kind = "local"
    /\ submodule_infos # <<>> =>
          /\ RegistryMode /\ fetcher.github_repo # <<>>
          /\ Len(submodule_infos) = Len(doc.modules)
          /\ \A i \in DOMAIN submodule_infos :
                /\ submodule_infos[i].name = doc.modules[i].name
                /\ doc.modules[i].source \in {submodule_infos[i].path,
                                              <<"./">> \o submodule_infos[i].path}
                /\ Head(submodule_infos[i].path) # "./"

\* a finished run on a local README with a submodule README on disk
C21_Witness ==
    /\ ~RegistryMode /\ ppc = "done" /\ jsonFile # NoJson
    /\ doc.localSubs # <<>>
    /\ "submodules" \in jsonFile.data.keys

\* a registry run with a source path that had "./" in front and one that had not
C21_WitnessRegistry ==
    /\ RegistryMode /\ Len(submodule_infos) = 2
    /\ doc.modules[1].source = <<"./">> \o submodule_infos[1].path
    /\ doc.modules[2].source = submodule_infos[2].path

\* C22: extract_section returns text only for a document that has a line
\* which is exactly "## <name>"; "### <name>", "## <name> extra", the name in
\* another letter case, and "## <name>" in the middle of a line do not count
C22_OnlyExactHeadingCounts ==
    (Called("extract_section") /\ ret_text # <<>>) => HeadingLines(LastCall.arg) # {}

\* C23: every entry of a mapping returned by parse_inputs_section or
\* parse_outputs_section has a name that is not empty, is its key, and is the
\* display name of an entry of the section without its backslashes
C23_EntryNamesNotEmpty ==
    (Called("parse_inputs_section") \/ Called("parse_outputs_section")) =>
        \A i \in DOMAIN ret_dict :
            /\ ret_dict[i].val.name # <<>>
            /\ ret_dict[i].val.name = ret_dict[i].key
            /\ "\\" \notin Range(ret_dict[i].key)
            /\ \E j \in DOMAIN LastCall.arg :
                  /\ LastCall.arg[j].k \in {"input", "output"}
                  /\ Clean(LastCall.arg[j].a) = ret_dict[i].key

\* the ```hcl blocks and the backticked scalar types of an entry
HclBlocks(entry) == {i \in DOMAIN entry : entry[i].k = "hcl"}
ScalarTypes(entry) == {i \in DOMAIN entry : entry[i].k = "type" /\ entry[i].a # <<>>}

\* C24: the type of a parsed input entry is the trimmed body of its ```hcl
\* block (the first one) when that body is not blank, whether or not a scalar
\* type follows "Type:"; otherwise it is the scalar type, or empty if there
\* is none
C24_HclBlockOverridesScalarType ==
    (Called("parse_input_entry") /\ ret_entry # NoEntry) =>
        LET entry == LastCall.arg
            body == IF HclBlocks(entry) = {} THEN <<>>
                    ELSE StripChunks(entry[Min(HclBlocks(entry))].a)
        IN /\ body # <<>> => ret_entry.type = body
           /\ (body = <<>> /\ ScalarTypes(entry) # {})
                 => ret_entry.type = entry[Min(ScalarTypes(entry))].a
           /\ (body = <<>> /\ ScalarTypes(entry) = {}) => ret_entry.type = <<>>

\* an entry with a scalar type and a block: the type is the trimmed body
C24_Witness ==
    /\ Called("parse_input_entry")
    /\ ScalarTypes(LastCall.arg) # {} /\ HclBlocks(LastCall.arg) # {}
    /\ ret_entry.type = <<"map(string)">>

\* a block with a blank body after a scalar type; a block and no scalar
\* type; a scalar type and no block; neither
C24_WitnessBlankBlock ==
    /\ Called("parse_input_entry")
    /\ ScalarTypes(LastCall.arg) # {} /\ HclBlocks(LastCall.arg) # {}
    /\ ret_entry.type = <<"string">>

C24_WitnessBlockOnly ==
    /\ Called("parse_input_entry")
    /\ ScalarTypes(LastCall.arg) = {} /\ Cardinality(HclBlocks(LastCall.arg)) = 2
    /\ ret_entry.type = <<"map(object({}))">>

C24_WitnessScalarOnly ==
    /\ Called("parse_input_entry")
    /\ ScalarTypes(LastCall.arg) # {} /\ HclBlocks(LastCall.arg) = {}
    /\ ret_entry.type = <<"string">>

C24_WitnessNoType ==
    /\ Called("parse_input_entry") /\ ret_entry # NoEntry
    /\ ScalarTypes(LastCall.arg) = {} /\ HclBlocks(LastCall.arg) = {}
    /\ ret_entry.type = <<>>

\* how many times a call occurs in the calls made so far
CountOf(seq, x) == Cardinality({i \in DOMAIN seq : seq[i] = x})
\* the entries of fetched submodules in a submodules mapping
FetchedEntries(d) == {i \in DOMAIN d : d[i].val.kind = "registry"}

\* C25: the entry of a fetched submodule holds the inputs of the Required and
\* Optional Inputs sections and the outputs of the Outputs section of its
\* README and has no module_requirements and no submodules key, under the
\* name of the submodule; the sections "Modules" and "Submodules" of that
\* README add nothing to the list of submodules, and there is exactly one
\* fetch per entry of the parent's "Modules" section
C25_SubmodulesAreParsedOneLevelDeep ==
    /\ \A d \in {submodules_data, parsed_data.submodules} :
          \A i \in FetchedEntries(d) :
              /\ d[i].val.keys = {"name", "path", "description", "inputs", "outputs"}
              /\ d[i].val.name = d[i].key
              /\ d[i].key \in {submodule_infos[j].name : j \in DOMAIN submodule_infos}
              /\ DictKeys(d[i].val.inputs) = {<<"name">>, <<"tags">>}
              /\ DictGet(d[i].val.inputs, <<"name">>).required
              /\ ~DictGet(d[i].val.inputs, <<"tags">>).required
              /\ DictKeys(d[i].val.outputs) = {<<"id">>}
    /\ submodule_infos # <<>> =>
          /\ Len(submodule_infos) = Len(doc.modules)
          /\ \A j \in DOMAIN submodule_infos : submodule_infos[j].name = doc.modules[j].name
    /\ CountOf(stages, "fetch_submodule_readme") = Len(subFetchOk)
    /\ Len(subFetchOk) <= Len(doc.modules)
    /\ CountOf(stages, "parse_readme_directly")
          = Cardinality({j \in DOMAIN subFetchOk : subFetchOk[j]})

\* a finished run that fetched and parsed the READMEs of two submodules
C25_Witness ==
    /\ ppc = "done" /\ jsonFile # NoJson
    /\ subFetchOk = <<TRUE, TRUE>>
    /\ Cardinality(FetchedEntries(jsonFile.data.submodules)) = 2
    /\ CountOf(stages, "parse_readme_directly") = 2

\* "<owner>/<repo>" of a source URL <scheme> github.com <: or /> <owner> /
\* <repo>, without a ".git" at its very end; <<>> for any other URL
OwnerAndRepo(url) ==
    IF /\ Len(url) >= 6 /\ url[2] = "github.com" /\ url[3] \in {":", "/"}
       /\ Cardinality({i \in 4..Len(url) : url[i] = "/"}) = 1
       /\ url[4] # "/" /\ url[Len(url)] # "/"
    THEN IF url[Len(url)] = ".git" THEN SubSeq(url, 4, Len(url) - 1)
         ELSE SubSeq(url, 4, Len(url))
    ELSE <<>>

\* C26: once extract_github_repo has run, github_repo is "<owner>/<repo>" of
\* the source URL with only a trailing ".git" removed, and it is unset when
\* the URL has no GitHub shape
C26_RepoIsOwnerAndRepo ==
    "extract_github_repo" \in Range(stages) =>
        fetcher.github_repo = OwnerAndRepo(fetched_source)

C28_BranchIsTheOneThatAnswered ==
    (fetchLog # <<>> /\ fetchResult.ok) =>
        /\ fetchLog[Len(fetchLog)].status = "200"
        /\ fetchLog[Len(fetchLog)].url = LatestUrl(fetchResult.branch)
        /\ fetcher.repo_branch = fetchResult.branch

\* C29: main reports success only in runs in which the JSON file at the
\* output path was written; a run whose write failed does not report success
C29_SuccessMeansFileWritten ==
    reported = "success" =>
        /\ pFailure # "write"
        /\ jsonFile = [name |-> out_name, data |-> parsed_data]

\* the steps of main in the order of the code
StepOrder == <<"download", "load", "match", "write", "cleanup", "done">>
StepIndex(step) == CHOOSE i \in DOMAIN StepOrder : StepOrder[i] = step

\* C30: main moves from each step to the next one of download, load, match,
\* write, cleanup; the output file changes only in the write step, which is
\* reached only after the three steps before it succeeded; a run that exits
\* with status 1 on a download, load or match failure leaves the existing
\* output file as it was
C30_OutputOpenedOnlyAfterMatching ==
    /\ [][/\ fpc' # fpc => StepIndex(fpc') = StepIndex(fpc) + 1
          /\ outputCsv' # outputCsv => (fpc = "write" /\ failedStep = "none"
                                         /\ temp_files # <<>>)]_vars
    /\ []((exitStatus = 1 /\ failedStep \in {"download", "load", "match"})
             => (outputCsv = OldOutput /\ fpc = failedStep))

\* a run that ended with status 1 in the match step, with an output file of
\* an earlier run in place
C30_Witness ==
    /\ exitStatus = 1 /\ failedStep = "match" /\ fpc = "match"
    /\ temp_files # <<>>
    /\ outputCsv = OldOutput

\* a run whose write step replaced the output file of an earlier run
C30_WitnessWritten ==
    /\ exitStatus = 0 /\ fpc = "done"
    /\ outputCsv # OldOutput /\ outputCsv.header = OUTPUT_COLUMNS

====
